---- MODULE Spec2Model ----
(***************************************************************************)
(* PulseAI-Insights: the health-score derivation and the ML-prediction     *)
(* orchestration pipeline of server/routes.ts, server/storage.ts and       *)
(* server/health-score.ts, as a state machine over the database tables.    *)
(*                                                                         *)
(* Every route handler is one action (requests that run one after the      *)
(* other), except in the two specifications of concurrent requests, where  *)
(* a handler is cut at its awaits and each piece is one action. The        *)
(* employee page of the client is the state of its React component and of  *)
(* its query cache. Timestamps are integers in milliseconds, as            *)
(* Date.getTime().                                                         *)
(* Columns of SQL type real are carried in hundredths (5.25 hours = 525),  *)
(* and the arithmetic of the score formulas is exact rational arithmetic   *)
(* on those integers; where the exact value of a formula lies half-way     *)
(* between two integers, Math.round of its double-precision value can give *)
(* either of them, and both are outcomes of the model.                     *)
(***************************************************************************)
EXTENDS Integers, Sequences, FiniteSets, TLC

VARIABLES
    employees,        \* table employees: set of [id, name, email]
    nextEmployeeId,   \* serial of employees.id
    weeklyMetrics,    \* table employee_weekly_metrics: set of rows
    nextMetricId,     \* serial of employee_weekly_metrics.id
    healthScores,     \* table health_scores: set of rows
    nextHealthId,     \* serial of health_scores.id
    mlPredictions,    \* table employee_ml_predictions: set of rows
    alerts,           \* table alerts: set of [id, employeeId, status, actionTaken]
    normalizer,       \* the raw score last normalised and the result
    nextPredictionId, \* serial of employee_ml_predictions.id
    now,              \* the wall clock, ms (Date.now() and SQL now())
    ticks,            \* number of clock advances so far
    run,              \* what the last orchestration request did
    resp,             \* the HTTP response of the last request
    calls,            \* the calls suspended at an await, by caller
    view              \* the mounted employee page of the client

vars == <<employees, nextEmployeeId, weeklyMetrics, nextMetricId, healthScores,
          nextHealthId, mlPredictions, nextPredictionId, alerts, normalizer, now,
          ticks, run, resp, calls, view>>

-----------------------------------------------------------------------------
(* Bounds of the exploration *)

MaxTicks == 2
MaxMetricRows == 3
MaxPredictionRows == 2
MaxPayloads == 2
MaxEmployees == 4
MaxResults == 2
MaxAlerts == 3
MaxTeamRows == 5
MaxSelections == 2
MaxClicks == 1

-----------------------------------------------------------------------------
(* Program constants *)

\* routes.ts:322  parseInt(process.env.ML_PREDICTION_CACHE_TTL_MS || "300000")
cacheTtlMs == 300000

\* routes.ts:302-303  metrics.slice(0, 4); window.length < 4
WindowSize == 4

\* one day in milliseconds (Date.setDate works in days)
DayMs == 86400000

\* hundredths: the unit in which real-typed columns are carried
Scale == 100

-----------------------------------------------------------------------------
(* Generic helpers *)

Min(a, b) == IF a < b THEN a ELSE b
Max(a, b) == IF a > b THEN a ELSE b

Range(s) == {s[i] : i \in 1..Len(s)}

\* Array.prototype.slice(0, n)
Slice0(s, n) == SubSeq(s, 1, Min(n, Len(s)))

\* Array.prototype.reverse()
Reverse(s) == [i \in 1..Len(s) |-> s[Len(s) + 1 - i]]

\* Array.prototype.map over a sequence
MapSeq(F(_), s) == [i \in 1..Len(s) |-> F(s[i])]

-----------------------------------------------------------------------------
(* Exact rational arithmetic: a number is [n |-> numerator, d |-> denominator] *)
(* with d > 0, in lowest terms. It stands for the JavaScript numbers of       *)
(* health-score.ts. The non-finite numbers have d = 0: NaN is 0/0, Infinity   *)
(* is 1/0 and -Infinity is -1/0.                                              *)

Abs(x) == IF x < 0 THEN 0 - x ELSE x

RECURSIVE GCD(_, _)
GCD(a, b) == IF b = 0 THEN a ELSE GCD(b, a % b)

Norm(n, d) ==
    LET g == GCD(Abs(n), d)
    IN  IF g = 0 THEN [n |-> 0, d |-> 0] ELSE [n |-> n \div g, d |-> d \div g]

NaN == [n |-> 0, d |-> 0]
PosInfinity == [n |-> 1, d |-> 0]
NegInfinity == [n |-> 0 - 1, d |-> 0]

\* Number.isNaN
IsNaN(a) == a.n = 0 /\ a.d = 0

R(n, d) == Norm(n, d)
RInt(k) == [n |-> k, d |-> 1]

RAdd(a, b) ==
    LET l == (a.d \div GCD(a.d, b.d)) * b.d
    IN  Norm(a.n * (l \div a.d) + b.n * (l \div b.d), l)

RSub(a, b) == RAdd(a, [n |-> 0 - b.n, d |-> b.d])
RMul(a, b) == Norm(a.n * b.n, a.d * b.d)

\* a / b for b > 0
RDiv(a, b) == Norm(a.n * b.d, a.d * b.n)

\* a < b and a <= b: false when either is NaN
RLess(a, b) ==
    /\ ~IsNaN(a) /\ ~IsNaN(b)
    /\ IF a.d = 0 /\ b.d = 0 THEN a.n < b.n ELSE a.n * b.d < b.n * a.d

RLeq(a, b) ==
    /\ ~IsNaN(a) /\ ~IsNaN(b)
    /\ IF a.d = 0 /\ b.d = 0 THEN a.n <= b.n ELSE a.n * b.d <= b.n * a.d

\* Math.min and Math.max: NaN when either argument is NaN
RMin(a, b) == IF IsNaN(a) \/ IsNaN(b) THEN NaN ELSE IF RLess(b, a) THEN b ELSE a
RMax(a, b) == IF IsNaN(a) \/ IsNaN(b) THEN NaN ELSE IF RLess(a, b) THEN b ELSE a

\* Math.round of a number held exactly: the nearest integer, halves rounded up
MathRound(a) == (2 * a.n + a.d) \div (2 * a.d)

\* a rounding that drops the fraction
MathRoundDown(a) == {a.n \div a.d}

\* Math.round of the double computed by a formula whose exact value is a: the
\* double differs from a by rounding errors, so at an exact half it can lie
\* on either side and both neighbours are possible
MathRoundComputed(a) ==
    IF a.d = 2 THEN {(a.n - 1) \div 2, (a.n + 1) \div 2} ELSE {MathRound(a)}

\* a real-typed column value (hundredths) as a number
Real(v) == R(v, Scale)

-----------------------------------------------------------------------------
(* server/health-score.ts *)

\* a clamp without the upper limit
clampNoCeiling(value) == RMax(RInt(0), value)

\* const clamp = (value, min = 0, max = 100) => Math.max(min, Math.min(max, value))
clamp(value) == RMax(RInt(0), RMin(RInt(100), value))

\* a rescaling that takes only scores up to 1 as fractions
toPercentUnitScale(value) ==
    IF IsNaN(value) THEN RInt(0)
    ELSE IF RLeq(value, RInt(1)) THEN RMul(value, RInt(100)) ELSE value

\* if (Number.isNaN(value)) return 0; return value <= 1.5 ? value * 100 : value
toPercent(value) ==
    IF IsNaN(value) THEN RInt(0)
    ELSE IF RLeq(value, R(15, 10)) THEN RMul(value, RInt(100)) ELSE value

\* Math.round of a normalised score: value is computed (raw * 100) when the
\* raw score is at most 1.5, and is the raw score itself, held exactly, above
RoundNormalized(raw, value) ==
    IF RLeq(raw, R(15, 10)) THEN MathRoundComputed(value) ELSE {MathRound(value)}

\* The set of results the function can return for the metric: one result,
\* unless the exact value of a formula is half-way between two integers.
computeHealthScoreFromMetric(metric) ==
    LET engagementScore == clamp(toPercent(Real(metric.engagementScore)))
        collaborationScore == clamp(toPercent(Real(metric.collaborationScore)))
        tasksAssigned == Max(0, metric.tasksAssigned)
        tasksCompleted == Max(0, metric.tasksCompleted)
        missedDeadlines == Max(0, metric.missedDeadlines)
        taskCompletionRatio ==
            IF tasksAssigned > 0 THEN R(tasksCompleted, tasksAssigned) ELSE RInt(0)
        deadlineMissRate ==
            IF tasksAssigned > 0 THEN R(missedDeadlines, tasksAssigned) ELSE RInt(0)
        workloadScore ==
            clamp(RAdd(RAdd(RMul(R(tasksAssigned, 40), RInt(70)),
                            RMul(RDiv(Real(metric.meetingHours), RInt(10)), RInt(20))),
                       RMul(R(metric.stretchAssignments, 5), RInt(10))))
        performanceScore ==
            clamp(RSub(RAdd(RAdd(RMul(RMul(taskCompletionRatio, RInt(100)), R(6, 10)),
                                 RMul(engagementScore, R(2, 10))),
                            RMul(collaborationScore, R(2, 10))),
                       RMul(RMul(deadlineMissRate, RInt(100)), R(2, 10))))
        burnoutRisk ==
            clamp(RAdd(RAdd(RAdd(RMul(workloadScore, R(45, 100)),
                                 RMul(RMul(deadlineMissRate, RInt(100)), R(25, 100))),
                            RMul(RSub(RInt(100), engagementScore), R(2, 10))),
                       RMul(RSub(RInt(100), collaborationScore), R(1, 10))))
    IN  {[employeeId |-> metric.employeeId,
          burnoutRisk |-> b,
          engagementScore |-> e,
          performanceScore |-> p,
          workloadScore |-> w,
          date |-> metric.weekStart] :
            b \in MathRoundComputed(burnoutRisk),
            e \in RoundNormalized(Real(metric.engagementScore), engagementScore),
            p \in MathRoundComputed(performanceScore),
            w \in MathRoundComputed(workloadScore)}

-----------------------------------------------------------------------------
(* server/storage.ts: the queries, over table values.  A table is a set of  *)
(* rows; a query with ORDER BY yields a sequence, and where the order of    *)
(* rows with equal keys is left open by SQL every such order is a result.   *)

\* storage.ts:61  select().from(employees).where(eq(employees.id, id))
getEmployee(emps, id) == {e \in emps : e.id = id}

\* .orderBy(desc(employeeWeeklyMetrics.weekStart)) over a set of rows
RECURSIVE OrderByWeekStartDesc(_)
OrderByWeekStartDesc(rows) ==
    IF rows = {} THEN {<<>>}
    ELSE UNION {{<<r>> \o t : t \in OrderByWeekStartDesc(rows \ {r})} :
                r \in {x \in rows : \A y \in rows : x.weekStart >= y.weekStart}}

getWeeklyMetrics(metrics, employeeId) ==
    OrderByWeekStartDesc({m \in metrics : m.employeeId = employeeId})

\* a select that returns the metrics of the newest week only
getAllWeeklyMetricsNewestWeek(metrics) ==
    OrderByWeekStartDesc({m \in metrics : \A o \in metrics : m.weekStart >= o.weekStart})

\* storage.ts:209-213
getAllWeeklyMetrics(metrics) == OrderByWeekStartDesc(metrics)

\* db.insert(employeeWeeklyMetrics).values(metrics).returning(): the rows in
\* the order given, with consecutive serial ids
createWeeklyMetrics(nextId, metrics) ==
    [i \in 1..Len(metrics) |->
        [id |-> nextId + i - 1,
         employeeId |-> metrics[i].employeeId,
         weekStart |-> metrics[i].weekStart,
         tasksAssigned |-> metrics[i].tasksAssigned,
         tasksCompleted |-> metrics[i].tasksCompleted,
         missedDeadlines |-> metrics[i].missedDeadlines,
         meetingHours |-> metrics[i].meetingHours,
         collaborationScore |-> metrics[i].collaborationScore,
         engagementScore |-> metrics[i].engagementScore,
         learningHours |-> metrics[i].learningHours,
         stretchAssignments |-> metrics[i].stretchAssignments]]

\* db.insert(healthScores).values(score).returning()
addHealthScore(st, score) ==
    [rows |-> st.rows \cup
                {[id |-> st.nextId,
                  employeeId |-> score.employeeId,
                  burnoutRisk |-> score.burnoutRisk,
                  engagementScore |-> score.engagementScore,
                  performanceScore |-> score.performanceScore,
                  workloadScore |-> score.workloadScore,
                  date |-> score.date]},
     nextId |-> st.nextId + 1]

updateHealthScoreKeepsScores(st, existing, score) ==
    [rows |-> {IF h.id = existing.id THEN [h EXCEPT !.date = score.date] ELSE h :
               h \in st.rows},
     nextId |-> st.nextId]

\* db.update(healthScores).set({...}).where(eq(healthScores.id, existing.id))
updateHealthScore(st, existing, score) ==
    [rows |-> {IF h.id = existing.id
                 THEN [h EXCEPT !.burnoutRisk = score.burnoutRisk,
                                !.engagementScore = score.engagementScore,
                                !.performanceScore = score.performanceScore,
                                !.workloadScore = score.workloadScore,
                                !.date = score.date]
                 ELSE h : h \in st.rows},
     nextId |-> st.nextId]

upsertHealthScoreAlwaysInsert(st, score) == {addHealthScore(st, score)}

\* The health_scores table is st = [rows, nextId]. The result is the set of
\* tables the call can leave: select ... limit(1) has no ORDER BY, so any
\* matching row can be the one found.
upsertHealthScore(st, score) ==
    LET matching == {h \in st.rows : h.employeeId = score.employeeId /\ h.date = score.date}
    IN  IF matching # {}
          THEN {updateHealthScore(st, existing, score) : existing \in matching}
          ELSE {addHealthScore(st, score)}

\* a loop that stops after the first metric
UpsertEachFirstOnly(st, created) ==
    IF created = <<>> THEN {st}
    ELSE UNION {upsertHealthScore(st, score) :
                  score \in computeHealthScoreFromMetric(Head(created))}

\* for (const metric of created) await storage.upsertHealthScore(
\*     computeHealthScoreFromMetric(metric))
RECURSIVE UpsertEach(_, _)
UpsertEach(st, created) ==
    IF created = <<>> THEN {st}
    ELSE UNION {UpsertEach(st2, Tail(created)) :
                st2 \in UNION {upsertHealthScore(st, score) :
                                 score \in computeHealthScoreFromMetric(Head(created))}}

\* .orderBy(desc(employeeMlPredictions.createdAt)) over a set of rows
RECURSIVE OrderByCreatedAtDesc(_)
OrderByCreatedAtDesc(rows) ==
    IF rows = {} THEN {<<>>}
    ELSE UNION {{<<r>> \o t : t \in OrderByCreatedAtDesc(rows \ {r})} :
                r \in {x \in rows : \A y \in rows : x.createdAt >= y.createdAt}}

\* a read without the ORDER BY: any row of the employee
getLatestMlPredictionUnordered(predictions, employeeId) ==
    LET mine == {p \in predictions : p.employeeId = employeeId}
    IN  IF mine = {} THEN {<<>>} ELSE {<<p>> : p \in mine}

\* storage.ts:242-249: the first row of the employee's predictions, newest
\* first: <<row>>, or <<>> for undefined
getLatestMlPrediction(predictions, employeeId) ==
    LET mine == {p \in predictions : p.employeeId = employeeId}
    IN  IF mine = {} THEN {<<>>}
        ELSE {<<Head(s)>> : s \in OrderByCreatedAtDesc(mine)}

RECURSIVE LatestByEmployeeOverwriting(_)
LatestByEmployeeOverwriting(ordered) ==
    IF ordered = <<>> THEN <<>>
    ELSE LET front == LatestByEmployeeOverwriting(SubSeq(ordered, 1, Len(ordered) - 1))
             last == ordered[Len(ordered)]
         IN  IF \E i \in 1..Len(front) : front[i].employeeId = last.employeeId
               THEN [i \in 1..Len(front) |->
                        IF front[i].employeeId = last.employeeId THEN last ELSE front[i]]
               ELSE Append(front, last)

\* storage.ts:226-231: the first row seen of each employee, in order of
\* first appearance
RECURSIVE LatestByEmployee(_)
LatestByEmployee(ordered) ==
    IF ordered = <<>> THEN <<>>
    ELSE LET front == LatestByEmployee(SubSeq(ordered, 1, Len(ordered) - 1))
             last == ordered[Len(ordered)]
         IN  IF \E i \in 1..Len(front) : front[i].employeeId = last.employeeId
               THEN front
               ELSE Append(front, last)

\* employeeMap.get(prediction.employeeId) ?? "Employee"
EmployeeNameOf(emps, employeeId) ==
    IF \E e \in emps : e.id = employeeId
      THEN (CHOOSE e \in emps : e.id = employeeId).name
      ELSE "Employee"

\* storage.ts:221-240
getLatestMlPredictions(predictions, emps) ==
    {LET latest == LatestByEmployee(ordered)
     IN  [i \in 1..Len(latest) |->
            [id |-> latest[i].id,
             employeeId |-> latest[i].employeeId,
             burnoutRisk |-> latest[i].burnoutRisk,
             createdAt |-> latest[i].createdAt,
             employeeName |-> EmployeeNameOf(emps, latest[i].employeeId)]] :
     ordered \in OrderByCreatedAtDesc(predictions)}

\* an insert that stores the first row only
createMlPredictionsFirstOnly(nextId, predictions, at) ==
    [i \in 1..Min(1, Len(predictions)) |->
        [id |-> nextId + i - 1,
         employeeId |-> predictions[i].employeeId,
         burnoutRisk |-> predictions[i].burnoutRisk,
         createdAt |-> at]]

\* storage.ts:251-254: db.insert(employeeMlPredictions).values(...).returning();
\* created_at is defaultNow(), the time of the insert. Of the columns the
\* service fills, burnoutRisk stands for all: each is stored as received.
createMlPredictions(nextId, predictions, at) ==
    [i \in 1..Len(predictions) |->
        [id |-> nextId + i - 1,
         employeeId |-> predictions[i].employeeId,
         burnoutRisk |-> predictions[i].burnoutRisk,
         createdAt |-> at]]

InsertMlPredictionsReplacing(table, saved) ==
    {p \in table : \A i \in 1..Len(saved) : saved[i].employeeId # p.employeeId}
        \cup Range(saved)

\* the table employee_ml_predictions after that insert
InsertMlPredictions(table, saved) == table \cup Range(saved)

-----------------------------------------------------------------------------
(* Request inputs *)

\* the measures of one week, as a client sends them (real values in hundredths)
LightWeek ==
    [tasksAssigned |-> 20, tasksCompleted |-> 18, missedDeadlines |-> 1,
     meetingHours |-> 500, collaborationScore |-> 80, engagementScore |-> 75,
     learningHours |-> 200, stretchAssignments |-> 1]

HeavyWeek ==
    [tasksAssigned |-> 45, tasksCompleted |-> 20, missedDeadlines |-> 10,
     meetingHours |-> 1250, collaborationScore |-> 4000, engagementScore |-> 3550,
     learningHours |-> 0, stretchAssignments |-> 3]

\* employee ids named by requests: two stored employees and an unknown one
RequestEmployeeIds == {1, 2, 9}

\* new Date(isoString).getTime()
DateOf(day) == day * DayMs

SeqsUpTo(S, n) == UNION {[1..k -> S] : k \in 0..n}

WeeklyPayloadItem(e, d, m) ==
    [employeeId |-> e, weekStart |-> d, tasksAssigned |-> m.tasksAssigned,
     tasksCompleted |-> m.tasksCompleted, missedDeadlines |-> m.missedDeadlines,
     meetingHours |-> m.meetingHours, collaborationScore |-> m.collaborationScore,
     engagementScore |-> m.engagementScore, learningHours |-> m.learningHours,
     stretchAssignments |-> m.stretchAssignments]

\* items of the bodies of POST /api/metrics/weekly: employee 1 with either set
\* of measures on day 0 and with one on day 7 (employee 2 receives its
\* metrics from the CSV files)
WeeklyPayloadItems ==
    {WeeklyPayloadItem(1, 0, LightWeek), WeeklyPayloadItem(1, 0, HeavyWeek),
     WeeklyPayloadItem(1, 7, HeavyWeek)}

\* one parsed CSV row (routes.ts:194-208); stretch is <<n>>, or <<>> when the
\* file has no stretch_assignments column
CsvRow(key, week, stretch) ==
    [employeeKey |-> key, week |-> week, tasksAssigned |-> 28, tasksCompleted |-> 21,
     missedDeadlines |-> 2, meetingHours |-> 850, collaborationScore |-> 60,
     engagementScore |-> 4500, learningHours |-> 150, stretchAssignments |-> stretch]

\* CSV files. Their employee keys: "1" a stored id, "ann lee" a stored name in
\* another case, "E7" the local part of a stored email, "Zed" matching nobody,
\* "3" the decimal form of the id the next inserted employee receives.
CsvFiles ==
    {<<>>,
     <<CsvRow("1", 1, <<>>)>>,
     <<CsvRow("ann lee", 1, <<0>>), CsvRow("1", 1, <<>>)>>,
     <<CsvRow("E7", 2, <<>>)>>,
     <<CsvRow("Zed", 1, <<>>)>>,
     <<CsvRow("1", 2, <<>>), CsvRow("Zed", 2, <<0>>)>>,
     <<CsvRow("Zed", 1, <<>>), CsvRow("3", 1, <<>>)>>}

-----------------------------------------------------------------------------
(* The observable outcome of a request *)

NoRun == [op |-> "none"]
NoResp == [op |-> "none", status |-> 0]

Response(op, status, body) == [op |-> op, status |-> status, body |-> body]

-----------------------------------------------------------------------------
(* routes.ts: weekly metrics *)

\* POST /api/metrics/weekly (routes.ts:143-154)
PostWeeklyMetrics(payload) ==
    LET normalized ==
            [i \in 1..Len(payload) |->
                [payload[i] EXCEPT !.weekStart = DateOf(payload[i].weekStart)]]
        created == createWeeklyMetrics(nextMetricId, normalized)
    IN  /\ Cardinality(weeklyMetrics) + Len(payload) <= MaxMetricRows
        /\ weeklyMetrics' = weeklyMetrics \cup Range(created)
        /\ nextMetricId' = nextMetricId + Len(created)
        /\ \E st \in UpsertEach([rows |-> healthScores, nextId |-> nextHealthId], created) :
              /\ healthScores' = st.rows
              /\ nextHealthId' = st.nextId
        /\ resp' = Response("metrics.weekly.create", 201, created)
        /\ run' = NoRun
        /\ UNCHANGED <<calls, view, alerts, normalizer, employees, nextEmployeeId, mlPredictions, nextPredictionId, now, ticks>>

\* --- strings (a string is a sequence of one-character strings) ---

\* the upper-case letters and their lower-case forms
CharLower ==
    "A" :> "a" @@ "B" :> "b" @@ "C" :> "c" @@ "D" :> "d" @@ "E" :> "e" @@ "F" :> "f" @@
    "G" :> "g" @@ "H" :> "h" @@ "I" :> "i" @@ "J" :> "j" @@ "K" :> "k" @@ "L" :> "l" @@
    "M" :> "m" @@ "N" :> "n" @@ "O" :> "o" @@ "P" :> "p" @@ "Q" :> "q" @@ "R" :> "r" @@
    "S" :> "s" @@ "T" :> "t" @@ "U" :> "u" @@ "V" :> "v" @@ "W" :> "w" @@ "X" :> "x" @@
    "Y" :> "y" @@ "Z" :> "z"

LowerChar(c) == IF c \in DOMAIN CharLower THEN CharLower[c] ELSE c

\* String.prototype.toLowerCase
RECURSIVE toLowerCase(_)
toLowerCase(str) ==
    IF Len(str) = 0 THEN "" ELSE LowerChar(SubSeq(str, 1, 1)) \o toLowerCase(SubSeq(str, 2, Len(str)))

\* String.prototype.includes, for a one-character needle
includes(str, ch) == \E i \in 1..Len(str) : SubSeq(str, i, i) = ch

\* str.split(ch)[0]
SplitFirst(str, ch) ==
    IF includes(str, ch)
      THEN SubSeq(str, 1, (CHOOSE i \in 1..Len(str) :
                              /\ SubSeq(str, i, i) = ch
                              /\ \A j \in 1..(i - 1) : SubSeq(str, j, j) # ch) - 1)
      ELSE str

\* Map.prototype.set on a map held as a function
MapSet(m, k, v) == [x \in (DOMAIN m) \cup {k} |-> IF x = k THEN v ELSE m[x]]

\* new Map(rows.map((emp) => [Key(emp), emp])): with two rows under one key the
\* later row of the unordered select wins, so either can be the entry
RECURSIVE MapsOfEntries(_)
MapsOfEntries(entries) ==
    IF entries = {} THEN {<<>>}
    ELSE LET k == (CHOOSE p \in entries : TRUE)[1]
             same == {p \in entries : p[1] = k}
         IN  {MapSet(m, k, p[2]) : m \in MapsOfEntries(entries \ same), p \in same}

MapsOf(emps, Key(_)) == MapsOfEntries({<<Key(e), e>> : e \in emps})

\* Array.from(new Set(keys)): the distinct keys in order of first appearance
RECURSIVE Distinct(_)
Distinct(s) ==
    IF s = <<>> THEN <<>>
    ELSE LET front == Distinct(SubSeq(s, 1, Len(s) - 1))
             last == s[Len(s)]
         IN  IF last \in Range(front) THEN front ELSE Append(front, last)

\* storage.ts:65-68  db.insert(employees).values(e).returning()
createEmployee(id, name, email) == [id |-> id, name |-> name, email |-> email]

\* Number(trimmed) for a key that is the decimal form of a stored id
NumberOf(str, ids) == CHOOSE i \in ids : ToString(i) = str

\* routes.ts:218-256: the loop that maps each CSV employee key to an employee
\* id. st = [byId, byName, byEmail, employeeMap, created, nextId, unknown],
\* created the sequence of employees inserted so far, unknown the key that
\* ended the request with 400 (<<>> when none did).
ResolveKey(st, key, createMissingEmployees) ==
    LET trimmed == key
        keyLower == toLowerCase(trimmed)
        emailGuess == IF includes(trimmed, "@") THEN trimmed ELSE keyLower \o "@pulseai.local"
    IN  IF trimmed \in DOMAIN st.byId
          THEN [st EXCEPT !.employeeMap =
                   MapSet(@, trimmed, NumberOf(trimmed, {st.byId[k].id : k \in DOMAIN st.byId}))]
        ELSE IF keyLower \in DOMAIN st.byName
          THEN [st EXCEPT !.employeeMap = MapSet(@, trimmed, st.byName[keyLower].id)]
        ELSE IF toLowerCase(emailGuess) \in DOMAIN st.byEmail
          THEN [st EXCEPT !.employeeMap = MapSet(@, trimmed, st.byEmail[toLowerCase(emailGuess)].id)]
        ELSE IF createMissingEmployees = FALSE
          THEN [st EXCEPT !.unknown = <<trimmed>>]
        ELSE LET created ==
                     createEmployee(st.nextId,
                                    IF includes(trimmed, "@")
                                      THEN SplitFirst(trimmed, "@")
                                      ELSE "Employee " \o trimmed,
                                    toLowerCase(emailGuess))
             IN  [st EXCEPT !.created = Append(@, created),
                            !.nextId = @ + 1,
                            !.employeeMap = MapSet(@, trimmed, created.id),
                            !.byId = MapSet(@, ToString(created.id), created),
                            !.byName = MapSet(@, toLowerCase(created.name), created),
                            !.byEmail = MapSet(@, toLowerCase(created.email), created)]

\* a loop that creates every unmatched employee, whatever the request asks
RECURSIVE ResolveKeysCreatingAll(_, _, _)
ResolveKeysCreatingAll(st, keys, createMissingEmployees) ==
    IF keys = <<>> THEN st
    ELSE ResolveKeysCreatingAll(ResolveKey(st, Head(keys), TRUE),
                                Tail(keys), createMissingEmployees)

RECURSIVE ResolveKeys(_, _, _)
ResolveKeys(st, keys, createMissingEmployees) ==
    IF keys = <<>> \/ st.unknown # <<>> THEN st
    ELSE ResolveKeys(ResolveKey(st, Head(keys), createMissingEmployees),
                     Tail(keys), createMissingEmployees)

\* routes.ts:258-278: one CSV row as a weekly-metric record
CsvRecord(row, anchor, employeeMap) ==
    [employeeId |-> employeeMap[row.employeeKey],
     weekStart |-> anchor + (row.week - 1) * 7 * DayMs,
     tasksAssigned |-> row.tasksAssigned,
     tasksCompleted |-> row.tasksCompleted,
     missedDeadlines |-> row.missedDeadlines,
     meetingHours |-> row.meetingHours,
     collaborationScore |-> row.collaborationScore,
     engagementScore |-> row.engagementScore,
     learningHours |-> row.learningHours,
     stretchAssignments |->
        IF Len(row.stretchAssignments) = 1
          THEN row.stretchAssignments[1]
          ELSE Max(0, Min(3, MathRound(R(row.tasksAssigned - 15, 5))))]

\* POST /api/metrics/weekly/import-csv (routes.ts:156-292), from the parsed
\* rows on. A row's stretchAssignments is <<n>>, or <<>> for undefined.
ImportWeeklyCsv(rows, weekStartAnchor, createMissingEmployees) ==
    \E byId \in MapsOf(employees, LAMBDA e : ToString(e.id)) :
    \E byName \in MapsOf(employees, LAMBDA e : toLowerCase(e.name)) :
    \E byEmail \in MapsOf(employees, LAMBDA e : toLowerCase(e.email)) :
    LET anchor == DateOf(weekStartAnchor)
        keys == Distinct([i \in 1..Len(rows) |-> rows[i].employeeKey])
        st == ResolveKeys([byId |-> byId, byName |-> byName, byEmail |-> byEmail,
                           employeeMap |-> <<>>, created |-> <<>>,
                           nextId |-> nextEmployeeId, unknown |-> <<>>],
                          keys, createMissingEmployees)
        records == [i \in 1..Len(rows) |-> CsvRecord(rows[i], anchor, st.employeeMap)]
        inserted == createWeeklyMetrics(nextMetricId, records)
    IN  IF Len(rows) = 0
          THEN /\ resp' = Response("metrics.weekly.importCsv", 400,
                                   [message |-> "CSV has no data rows."])
               /\ run' = NoRun
               /\ UNCHANGED <<calls, view, alerts, normalizer, employees, nextEmployeeId, weeklyMetrics, nextMetricId,
                              healthScores, nextHealthId, mlPredictions,
                              nextPredictionId, now, ticks>>
        ELSE IF st.unknown # <<>>
          THEN /\ resp' = Response("metrics.weekly.importCsv", 400,
                                   [message |-> "Unknown employee: " \o st.unknown[1]])
               /\ run' = NoRun
               /\ UNCHANGED <<calls, view, alerts, normalizer, employees, nextEmployeeId, weeklyMetrics, nextMetricId,
                              healthScores, nextHealthId, mlPredictions,
                              nextPredictionId, now, ticks>>
        ELSE /\ Cardinality(weeklyMetrics) + Len(rows) <= MaxMetricRows
             /\ Cardinality(employees) + Len(st.created) <= MaxEmployees
             /\ employees' = employees \cup Range(st.created)
             /\ nextEmployeeId' = st.nextId
             /\ weeklyMetrics' = weeklyMetrics \cup Range(inserted)
             /\ nextMetricId' = nextMetricId + Len(inserted)
             /\ \E hs \in UpsertEach([rows |-> healthScores, nextId |-> nextHealthId], inserted) :
                   /\ healthScores' = hs.rows
                   /\ nextHealthId' = hs.nextId
             /\ resp' = Response("metrics.weekly.importCsv", 200,
                                 [insertedMetrics |-> Len(inserted),
                                  employeesCreated |-> Len(st.created),
                                  healthScoresUpserted |-> Len(inserted)])
             /\ run' = NoRun
             /\ UNCHANGED <<calls, view, alerts, normalizer, mlPredictions, nextPredictionId, now, ticks>>

\* POST /api/team/health/recompute (routes.ts:495-502)
RecomputeTeamHealth ==
    \E allMetrics \in getAllWeeklyMetrics(weeklyMetrics) :
    \E st \in UpsertEach([rows |-> healthScores, nextId |-> nextHealthId], allMetrics) :
        /\ healthScores' = st.rows
        /\ nextHealthId' = st.nextId
        /\ resp' = Response("team.recompute", 200, [updated |-> Len(allMetrics)])
        /\ run' = NoRun
        /\ UNCHANGED <<calls, view, alerts, normalizer, employees, nextEmployeeId, weeklyMetrics, nextMetricId,
                       mlPredictions, nextPredictionId, now, ticks>>

-----------------------------------------------------------------------------
(* routes.ts: ML predictions *)

\* one week of a payload (routes.ts:306-316)
PayloadWeek(week) ==
    [week_start |-> week.weekStart,
     tasks_assigned |-> week.tasksAssigned,
     tasks_completed |-> week.tasksCompleted,
     missed_deadlines |-> week.missedDeadlines,
     meeting_hours |-> week.meetingHours,
     collaboration_score |-> week.collaborationScore,
     engagement_score |-> week.engagementScore,
     learning_hours |-> week.learningHours,
     stretch_assignments |-> week.stretchAssignments]

buildPayloadForEmployeeNewestFirst(metrics, employeeId) ==
    {LET window == Slice0(ms, WindowSize)
     IN  IF Len(window) < WindowSize THEN <<>>
         ELSE <<[employee_id |-> employeeId, weeks |-> MapSeq(PayloadWeek, window)]>> :
     ms \in getWeeklyMetrics(metrics, employeeId)}

buildPayloadForEmployeeShortWindow(metrics, employeeId) ==
    {LET window == Reverse(Slice0(ms, WindowSize))
     IN  IF Len(window) < WindowSize - 1 THEN <<>>
         ELSE <<[employee_id |-> employeeId, weeks |-> MapSeq(PayloadWeek, window)]>> :
     ms \in getWeeklyMetrics(metrics, employeeId)}

\* routes.ts:300-318: <<payload>>, or <<>> for null; one result for each order
\* in which the query can return the employee's rows
buildPayloadForEmployee(metrics, employeeId) ==
    {LET window == Reverse(Slice0(ms, WindowSize))
     IN  IF Len(window) < WindowSize THEN <<>>
         ELSE <<[employee_id |-> employeeId, weeks |-> MapSeq(PayloadWeek, window)]>> :
     ms \in getWeeklyMetrics(metrics, employeeId)}

\* a gate that takes no stored prediction as fresh
IsFreshNever(cached, at) == cached # <<>> /\ at < cached[1].createdAt

IsFreshInclusive(cached, at) ==
    /\ cached # <<>>
    /\ at - cached[1].createdAt <= cacheTtlMs

\* routes.ts:328-331: if (cached?.createdAt) { ageMs = now - createdAt;
\* if (ageMs < cacheTtlMs) ... }; cached is <<row>> or <<>>
IsFresh(cached, at) ==
    /\ cached # <<>>
    /\ at - cached[1].createdAt < cacheTtlMs

\* routes.ts:326-336: the loop that splits the batch into the predictions
\* reused and the payloads to send
RECURSIVE CacheGate(_, _, _)
CacheGate(batchPayload, predictions, at) ==
    IF batchPayload = <<>> THEN {[recentlyCached |-> <<>>, toPredict |-> <<>>]}
    ELSE LET payload == batchPayload[Len(batchPayload)]
         IN  UNION {{IF IsFresh(cached, at)
                       THEN [g EXCEPT !.recentlyCached = Append(@, cached[1])]
                       ELSE [g EXCEPT !.toPredict = Append(@, payload)] :
                     cached \in getLatestMlPrediction(predictions, payload.employee_id)} :
                    g \in CacheGate(SubSeq(batchPayload, 1, Len(batchPayload) - 1),
                                    predictions, at)}

\* What POST {mlServiceUrl}/predict/batch can answer: no HTTP response at all
\* (fetch rejects), a non-2xx status, or 200 with a list of results. The
\* service is outside the repository: its results are any list over the
\* stored employees, as many as the prediction table can still take. The
\* body of a non-2xx answer is free as well, a list of results included.
RiskLabels == {"High"}

MlResults == {[employee_id |-> e, burnout_risk |-> l] : e \in {1, 2}, l \in RiskLabels}

MlResponses(room) ==
    {[kind |-> "unreachable", results |-> <<>>]}
        \cup {[kind |-> "non2xx", results |-> r] : r \in SeqsUpTo(MlResults, Min(1, room))}
        \cup {[kind |-> "ok", results |-> r] : r \in SeqsUpTo(MlResults, Min(MaxResults, room))}

\* routes.ts:347  if (!mlResponse.ok) return { ok: false, detail }
ResponseOkIgnored(r) == r.kind # "unreachable"

ResponseOk(r) == r.kind = "ok"

\* routes.ts:353-370: one result of the service as a row to insert
PredictionOf(result) ==
    [employeeId |-> result.employee_id, burnoutRisk |-> result.burnout_risk]

\* routes.ts:320-374. Each element is one way the call can go: what it
\* returns (threw: the fetch rejected and the call threw), the rows it
\* inserted, and the requests it sent to the service.
runMlBatch(batchPayload, predictions, nextId, at) ==
    UNION {
        IF Len(g.toPredict) = 0
          THEN {[threw |-> FALSE,
                 result |-> [ok |-> TRUE, processed |-> 0, saved |-> 0,
                             skipped |-> Len(g.recentlyCached)],
                 recentlyCached |-> g.recentlyCached, toPredict |-> g.toPredict,
                 fetches |-> <<>>, answer |-> "none", results |-> <<>>,
                 inserted |-> <<>>]}
          ELSE {LET mapped == [i \in 1..Len(r.results) |-> PredictionOf(r.results[i])]
                    saved == IF ResponseOk(r)
                               THEN createMlPredictions(nextId, mapped, at)
                               ELSE <<>>
                IN  [threw |-> r.kind = "unreachable",
                     result |-> IF ResponseOk(r)
                                  THEN [ok |-> TRUE, processed |-> Len(mapped),
                                        saved |-> Len(saved),
                                        skipped |-> Len(g.recentlyCached)]
                                  ELSE [ok |-> FALSE, processed |-> 0, saved |-> 0,
                                        skipped |-> 0],
                     recentlyCached |-> g.recentlyCached, toPredict |-> g.toPredict,
                     fetches |-> <<g.toPredict>>, answer |-> r.kind,
                     results |-> r.results, inserted |-> saved] :
                r \in MlResponses(MaxPredictionRows - Cardinality(predictions))} :
        g \in CacheGate(batchPayload, predictions, at)}

\* the record of an orchestration request: the employees it looked at, those
\* without a full window, the batch handed to runMlBatch and what runMlBatch
\* did with it, the prediction table before the request and the time
RunRecord(op, targets, insufficient, batchPayload, out, before, at) ==
    [op |-> op, targets |-> targets, insufficient |-> insufficient,
     batchPayload |-> batchPayload, recentlyCached |-> out.recentlyCached,
     toPredict |-> out.toPredict, fetches |-> out.fetches, answer |-> out.answer,
     results |-> out.results, inserted |-> out.inserted, before |-> before, at |-> at]

NotRun ==
    [threw |-> FALSE, result |-> [ok |-> TRUE, processed |-> 0, saved |-> 0, skipped |-> 0],
     recentlyCached |-> <<>>, toPredict |-> <<>>, fetches |-> <<>>, answer |-> "none",
     results |-> <<>>, inserted |-> <<>>]

\* a handler whose awaited call threw sends nothing itself: the client gets
\* no answer (0) or the framework's 500
UnhandledStatuses == {0, 500}

MlRequestDone(response, record, inserted) ==
    /\ resp' = response
    /\ run' = record
    /\ mlPredictions' = InsertMlPredictions(mlPredictions, inserted)
    /\ nextPredictionId' = nextPredictionId + Len(inserted)
    /\ UNCHANGED <<calls, view, alerts, normalizer, employees, nextEmployeeId, weeklyMetrics, nextMetricId,
                   healthScores, nextHealthId, now, ticks>>

Counts(processed, skipped, predictionsSaved) ==
    [processed |-> processed, skipped |-> skipped, predictionsSaved |-> predictionsSaved]

\* routes.ts:389-393: the answer of POST /api/ml/predict?employeeId= after runMlBatch
PredictQueryCounts(result) == Counts(result.processed, 0, result.saved)

\* routes.ts:432-436: the answer of POST /api/ml/predict/:employeeId after runMlBatch
PredictOneCounts(result) == Counts(result.processed, result.skipped, result.saved)

\* routes.ts:413-418: the answer of POST /api/ml/predict after runMlBatch
PredictAllCounts(result, skipped) ==
    Counts(result.processed, skipped + result.skipped, result.saved)

\* the part the two single-employee handlers share (routes.ts:379-393 and
\* 422-436); CountsOf is the handler's own answer after runMlBatch
PredictEmployee(op, employeeId, CountsOf(_)) ==
    IF getEmployee(employees, employeeId) = {}
      THEN MlRequestDone(Response(op, 404, [message |-> "Employee not found"]),
                         RunRecord(op, {}, {}, <<>>, NotRun, mlPredictions, now), <<>>)
      ELSE \E payload \in buildPayloadForEmployee(weeklyMetrics, employeeId) :
              IF payload = <<>>
                THEN MlRequestDone(Response(op, 200, Counts(0, 1, 0)),
                                   RunRecord(op, {employeeId}, {employeeId}, <<>>, NotRun,
                                             mlPredictions, now), <<>>)
                ELSE \E out \in runMlBatch(payload, mlPredictions, nextPredictionId, now) :
                     \E status \in IF out.threw THEN UnhandledStatuses
                                   ELSE IF out.result.ok THEN {200} ELSE {502} :
                        MlRequestDone(
                            Response(op, status,
                                     IF status = 200 THEN CountsOf(out.result)
                                     ELSE [message |-> "ML service error"]),
                            RunRecord(op, {employeeId}, {}, payload, out, mlPredictions, now),
                            out.inserted)

\* POST /api/ml/predict?employeeId=<id> (routes.ts:376-394)
PredictQuery(employeeId) ==
    PredictEmployee("ml.predict?employeeId", employeeId, PredictQueryCounts)

\* POST /api/ml/predict/:employeeId (routes.ts:421-437)
PredictOne(employeeId) ==
    PredictEmployee("ml.predictOne", employeeId, PredictOneCounts)

\* every order in which a select without ORDER BY can return the rows
RECURSIVE AnyOrder(_)
AnyOrder(rows) ==
    IF rows = {} THEN {<<>>}
    ELSE UNION {{<<r>> \o t : t \in AnyOrder(rows \ {r})} : r \in rows}

\* routes.ts:396-407: the loop over all employees; b = [skipped, insufficient,
\* batchPayload]
RECURSIVE BuildBatch(_, _)
BuildBatch(emps, metrics) ==
    IF emps = <<>> THEN {[skipped |-> 0, insufficient |-> {}, batchPayload |-> <<>>]}
    ELSE LET employee == emps[Len(emps)]
         IN  UNION {{IF payload = <<>>
                       THEN [b EXCEPT !.skipped = @ + 1,
                                      !.insufficient = @ \cup {employee.id}]
                       ELSE [b EXCEPT !.batchPayload = @ \o payload] :
                     payload \in buildPayloadForEmployee(metrics, employee.id)} :
                    b \in BuildBatch(SubSeq(emps, 1, Len(emps) - 1), metrics)}

\* POST /api/ml/predict (routes.ts:376-419, without employeeId)
PredictAll ==
    LET op == "ml.predict"
        ids == {e.id : e \in employees}
    IN  \E emps \in AnyOrder(employees) :
        \E b \in BuildBatch(emps, weeklyMetrics) :
           IF Len(b.batchPayload) = 0
             THEN MlRequestDone(Response(op, 200, Counts(0, b.skipped, 0)),
                                RunRecord(op, ids, b.insufficient, <<>>, NotRun,
                                          mlPredictions, now), <<>>)
             ELSE \E out \in runMlBatch(b.batchPayload, mlPredictions, nextPredictionId, now) :
                  \E status \in IF out.threw THEN UnhandledStatuses
                                ELSE IF out.result.ok THEN {200} ELSE {502} :
                     MlRequestDone(
                         Response(op, status,
                                  IF status = 200 THEN PredictAllCounts(out.result, b.skipped)
                                  ELSE [message |-> "ML service error"]),
                         RunRecord(op, ids, b.insufficient, b.batchPayload, out,
                                   mlPredictions, now),
                         out.inserted)

\* GET /api/ml/predictions (routes.ts:439-442)
GetMlPredictions ==
    \E predictions \in getLatestMlPredictions(mlPredictions, employees) :
        /\ resp' = Response("ml.predictions.list", 200, predictions)
        /\ run' = NoRun
        /\ UNCHANGED <<calls, view, alerts, normalizer, employees, nextEmployeeId, weeklyMetrics, nextMetricId, healthScores,
                       nextHealthId, mlPredictions, nextPredictionId, now, ticks>>

\* GET /api/ml/predictions/:employeeId (routes.ts:444-448)
GetMlPrediction(employeeId) ==
    \E prediction \in getLatestMlPrediction(mlPredictions, employeeId) :
        /\ resp' = IF prediction = <<>>
                     THEN Response("ml.predictions.get", 404,
                                   [employeeId |-> employeeId, message |-> "Prediction not found"])
                     ELSE Response("ml.predictions.get", 200, prediction[1])
        /\ run' = NoRun
        /\ UNCHANGED <<calls, view, alerts, normalizer, employees, nextEmployeeId, weeklyMetrics, nextMetricId, healthScores,
                       nextHealthId, mlPredictions, nextPredictionId, now, ticks>>

\* time passes between requests
TickSteps == {10000, 290000}

Tick ==
    \E step \in TickSteps :
        /\ ticks < MaxTicks
        /\ ticks' = ticks + 1
        /\ now' = now + step
        /\ run' = NoRun
        /\ resp' = NoResp
        /\ UNCHANGED <<calls, view, alerts, normalizer, employees, nextEmployeeId, weeklyMetrics, nextMetricId, healthScores,
                       nextHealthId, mlPredictions, nextPredictionId>>

-----------------------------------------------------------------------------
(* The server after start-up on a database holding two employees *)

\* no request is suspended at an await
NoCalls == <<>>

\* no employee page is mounted
NoView == [mounted |-> FALSE]

\* no score has been handed to the normaliser
NotNormalized == [raw |-> RInt(0), done |-> FALSE, value |-> RInt(0)]

InitialEmployees ==
    {[id |-> 1, name |-> "Ann Lee", email |-> "ann@pulse.ai"],
     [id |-> 2, name |-> "Employee E7", email |-> "e7@pulseai.local"]}

\* the clock at start-up: day 20 of the model's calendar
StartTime == 20 * DayMs

Init ==
    /\ employees = InitialEmployees
    /\ nextEmployeeId = 3
    /\ weeklyMetrics = {}
    /\ nextMetricId = 1
    /\ healthScores = {}
    /\ nextHealthId = 1
    /\ mlPredictions = {}
    /\ nextPredictionId = 1
    /\ alerts = {}
    /\ normalizer = NotNormalized
    /\ calls = NoCalls
    /\ view = NoView
    /\ now = StartTime
    /\ ticks = 0
    /\ run = NoRun
    /\ resp = NoResp

Next ==
    \/ \E payload \in SeqsUpTo(WeeklyPayloadItems, MaxPayloads) : PostWeeklyMetrics(payload)
    \/ \E rows \in CsvFiles, create \in BOOLEAN : ImportWeeklyCsv(rows, 0, create)
    \/ RecomputeTeamHealth

Spec == Init /\ [][Next]_vars

\* the same server receiving CSV imports only
NextImport ==
    \E rows \in CsvFiles, create \in BOOLEAN : ImportWeeklyCsv(rows, 0, create)

SpecImport == Init /\ [][NextImport]_vars

-----------------------------------------------------------------------------
(* The orchestration of predictions, on a database that already holds weekly *)
(* metrics: employee 2 has five weeks, employee 1 has three, or four of      *)
(* which two carry the same weekStart.                                       *)

StoredWeeks(employeeId, days) ==
    [i \in 1..Len(days) |->
        WeeklyPayloadItem(employeeId, DateOf(days[i]),
                          IF i % 2 = 0 THEN LightWeek ELSE HeavyWeek)]

MetricStores ==
    {StoredWeeks(2, <<14, 0, 7, 3, 10>>) \o StoredWeeks(1, <<7, 0, 14>>),
     StoredWeeks(1, <<7, 0, 7, 14>>) \o StoredWeeks(2, <<14, 0, 7, 3, 10>>)}

InitMl ==
    /\ employees = InitialEmployees
    /\ nextEmployeeId = 3
    /\ \E stored \in MetricStores :
          LET created == createWeeklyMetrics(1, stored)
          IN  /\ weeklyMetrics = Range(created)
              /\ nextMetricId = Len(created) + 1
              /\ \E st \in UpsertEach([rows |-> {}, nextId |-> 1], created) :
                    /\ healthScores = st.rows
                    /\ nextHealthId = st.nextId
    /\ mlPredictions = {}
    /\ nextPredictionId = 1
    /\ alerts = {}
    /\ normalizer = NotNormalized
    /\ calls = NoCalls
    /\ view = NoView
    /\ now = StartTime
    /\ ticks = 0
    /\ run = NoRun
    /\ resp = NoResp

NextMl ==
    \/ Tick
    \/ \E e \in RequestEmployeeIds : PredictQuery(e)
    \/ \E e \in RequestEmployeeIds : PredictOne(e)
    \/ PredictAll
    \/ GetMlPredictions
    \/ \E e \in RequestEmployeeIds : GetMlPrediction(e)

SpecMl == InitMl /\ [][NextMl]_vars

-----------------------------------------------------------------------------
(* Alerts: storage.ts:153-189 and the handlers of routes.ts:39-54. No route  *)
(* inserts an alert; the table holds what the seed or a rule evaluation      *)
(* outside the server put there.                                             *)

\* storage.ts:153-170: the active alerts joined with their employee; an alert
\* whose employee is not stored has no row in the inner join
getActiveAlerts(table, emps) ==
    AnyOrder(UNION {{[id |-> a.id, employeeId |-> a.employeeId, status |-> a.status,
                      actionTaken |-> a.actionTaken, employeeName |-> e.name] :
                     e \in {y \in emps : y.id = a.employeeId}} :
                    a \in {x \in table : x.status = "active"}})

\* storage.ts:172-176
getEmployeeAlerts(table, employeeId) ==
    AnyOrder({a \in table : a.employeeId = employeeId})

resolveAlertStatusOnly(table, id) ==
    LET after == {IF a.id = id THEN [a EXCEPT !.status = "resolved"] ELSE a : a \in table}
    IN  [table |-> after, updated |-> {a \in after : a.id = id}]

\* storage.ts:183-189: update alerts set status = 'resolved', action_taken =
\* true where id = $1 returning *; updated is the set of rows returned
resolveAlert(table, id) ==
    LET after == {IF a.id = id
                    THEN [a EXCEPT !.status = "resolved", !.actionTaken = TRUE]
                    ELSE a : a \in table}
    IN  [table |-> after, updated |-> {a \in after : a.id = id}]

\* POST /api/alerts/:id/resolve (routes.ts:50-54)
ResolveAlert(id) ==
    LET result == resolveAlert(alerts, id)
    IN  /\ alerts' = result.table
        /\ resp' = IF result.updated = {}
                     THEN Response("alerts.resolve", 404, [message |-> "Alert not found"])
                     ELSE Response("alerts.resolve", 200, CHOOSE a \in result.updated : TRUE)
        /\ run' = NoRun
        /\ UNCHANGED <<calls, view, normalizer, employees, nextEmployeeId, weeklyMetrics, nextMetricId,
                       healthScores, nextHealthId, mlPredictions, nextPredictionId,
                       now, ticks>>

\* GET /api/alerts (routes.ts:45-48)
GetActiveAlerts ==
    \E listed \in getActiveAlerts(alerts, employees) :
        /\ resp' = Response("alerts.list", 200, listed)
        /\ run' = NoRun
        /\ UNCHANGED <<calls, view, alerts, normalizer, employees, nextEmployeeId, weeklyMetrics,
                       nextMetricId, healthScores, nextHealthId, mlPredictions,
                       nextPredictionId, now, ticks>>

\* GET /api/employees/:id/alerts (routes.ts:39-42)
GetEmployeeAlerts(employeeId) ==
    \E listed \in getEmployeeAlerts(alerts, employeeId) :
        /\ resp' = Response("employees.getAlerts", 200, listed)
        /\ run' = NoRun
        /\ UNCHANGED <<calls, view, alerts, normalizer, employees, nextEmployeeId, weeklyMetrics,
                       nextMetricId, healthScores, nextHealthId, mlPredictions,
                       nextPredictionId, now, ticks>>

\* schema.ts:26-35: an alert as inserted (status 'active' by default,
\* action_taken false by default)
Alert(id, employeeId, status) ==
    [id |-> id, employeeId |-> employeeId, status |-> status, actionTaken |-> FALSE]

\* the alerts a table can hold at start: for the two stored employees, one of
\* them dismissed, and one for an employee that is not stored
AlertPool ==
    {Alert(1, 1, "active"), Alert(2, 2, "active"), Alert(3, 2, "dismissed"),
     Alert(4, 9, "active")}

\* alert ids named by requests: the stored ones and an unknown one
RequestAlertIds == {1, 2, 3, 4, 7}

InitAlerts ==
    /\ employees = InitialEmployees
    /\ nextEmployeeId = 3
    /\ weeklyMetrics = {}
    /\ nextMetricId = 1
    /\ healthScores = {}
    /\ nextHealthId = 1
    /\ mlPredictions = {}
    /\ nextPredictionId = 1
    /\ alerts \in {t \in SUBSET AlertPool : Cardinality(t) <= MaxAlerts}
    /\ normalizer = NotNormalized
    /\ calls = NoCalls
    /\ view = NoView
    /\ now = StartTime
    /\ ticks = 0
    /\ run = NoRun
    /\ resp = NoResp

NextAlerts ==
    \/ \E id \in RequestAlertIds : ResolveAlert(id)
    \/ GetActiveAlerts
    \/ \E e \in RequestEmployeeIds : GetEmployeeAlerts(e)

SpecAlerts == InitAlerts /\ [][NextAlerts]_vars

-----------------------------------------------------------------------------
(* The team snapshot: storage.ts:107-150 and GET /api/team/health            *)
(* (routes.ts:451-493). Date.setDate(getDate() - n) is taken as n days of    *)
(* 24 hours (a server clock without daylight-saving changes).                *)

HourMs == 3600000

\* acc.field + curr.field over the rows (storage.ts:125-130)
RECURSIVE SumField(_, _)
SumField(rows, field) ==
    IF rows = {} THEN 0
    ELSE LET r == CHOOSE x \in rows : TRUE
         IN  r[field] + SumField(rows \ {r}, field)

\* where(gte(healthScores.date, <now minus days>))
DatedSince(scores, days, at) == {h \in scores : h.date >= at - days * DayMs}

getLatestTeamHealthTwoWeeks(scores, at) ==
    LET recentScores == DatedSince(scores, 14, at)
        count == Cardinality(recentScores)
        Mean(field) == MathRound(R(SumField(recentScores, field), count))
    IN  IF count = 0
          THEN [burnoutRisk |-> 0, engagementScore |-> 0, performanceScore |-> 0,
                workloadScore |-> 0]
          ELSE [burnoutRisk |-> Mean("burnoutRisk"),
                engagementScore |-> Mean("engagementScore"),
                performanceScore |-> Mean("performanceScore"),
                workloadScore |-> Mean("workloadScore")]

\* storage.ts:107-138. The quotient of two integers is correctly rounded and
\* a half is a double, so Math.round(total / length) is the exact rounding.
getLatestTeamHealth(scores, at) ==
    LET recentScores == DatedSince(scores, 7, at)
        count == Cardinality(recentScores)
        Mean(field) == MathRound(R(SumField(recentScores, field), count))
    IN  IF count = 0
          THEN [burnoutRisk |-> 0, engagementScore |-> 0, performanceScore |-> 0,
                workloadScore |-> 0]
          ELSE [burnoutRisk |-> Mean("burnoutRisk"),
                engagementScore |-> Mean("engagementScore"),
                performanceScore |-> Mean("performanceScore"),
                workloadScore |-> Mean("workloadScore")]

\* .orderBy(healthScores.date) over a set of rows: rows of one date in any order
RECURSIVE OrderByDateAsc(_)
OrderByDateAsc(rows) ==
    IF rows = {} THEN {<<>>}
    ELSE UNION {{<<r>> \o t : t \in OrderByDateAsc(rows \ {r})} :
                r \in {x \in rows : \A y \in rows : x.date <= y.date}}

\* storage.ts:140-150
getTeamHealthTrend(scores, days, at) == OrderByDateAsc(DatedSince(scores, days, at))

\* two decimal digits
Pad2(k) == IF k < 10 THEN "0" \o ToString(k) ELSE ToString(k)

\* new Date(h.date).toISOString().split('T')[0], for the dates of January and
\* February 1970, where the model's calendar lies
IsoDate(ms) ==
    LET day == ms \div DayMs
    IN  IF day < 31 THEN "1970-01-" \o Pad2(day + 1) ELSE "1970-02-" \o Pad2(day - 30)

\* the order of the characters of a date string
CharRank ==
    "-" :> 0 @@ "0" :> 1 @@ "1" :> 2 @@ "2" :> 3 @@ "3" :> 4 @@ "4" :> 5 @@ "5" :> 6
        @@ "6" :> 7 @@ "7" :> 8 @@ "8" :> 9 @@ "9" :> 10

\* a.localeCompare(b) < 0 for date strings
RECURSIVE StrLess(_, _)
StrLess(a, b) ==
    IF a = "" THEN b # ""
    ELSE IF b = "" THEN FALSE
    ELSE LET x == CharRank[SubSeq(a, 1, 1)]
             y == CharRank[SubSeq(b, 1, 1)]
         IN  IF x = y THEN StrLess(SubSeq(a, 2, Len(a)), SubSeq(b, 2, Len(b))) ELSE x < y

\* routes.ts:456-465: trendMap after trendRaw.forEach, as the sequence of its
\* entries in order of insertion
RECURSIVE TrendMap(_)
TrendMap(trendRaw) ==
    IF trendRaw = <<>> THEN <<>>
    ELSE LET front == TrendMap(SubSeq(trendRaw, 1, Len(trendRaw) - 1))
             h == trendRaw[Len(trendRaw)]
             dateStr == IsoDate(h.date)
         IN  IF \E i \in 1..Len(front) : front[i].date = dateStr
               THEN [i \in 1..Len(front) |->
                        IF front[i].date = dateStr
                          THEN [date |-> dateStr, count |-> front[i].count + 1,
                                burnout |-> front[i].burnout + h.burnoutRisk,
                                performance |-> front[i].performance + h.performanceScore]
                          ELSE front[i]]
               ELSE Append(front, [date |-> dateStr, count |-> 1,
                                   burnout |-> h.burnoutRisk,
                                   performance |-> h.performanceScore])

\* routes.ts:467-470: one point of the chart from an entry of trendMap
TrendPoint(entry) ==
    [date |-> entry.date,
     burnout |-> MathRound(R(entry.burnout, entry.count)),
     performance |-> MathRound(R(entry.performance, entry.count))]

\* Array.prototype.sort((a, b) => a.date.localeCompare(b.date)): a stable sort
RECURSIVE SortByDate(_)
SortByDate(points) ==
    IF points = <<>> THEN <<>>
    ELSE LET sorted == SortByDate(SubSeq(points, 1, Len(points) - 1))
             last == points[Len(points)]
             before == Cardinality({i \in 1..Len(sorted) : ~StrLess(last.date, sorted[i].date)})
         IN  SubSeq(sorted, 1, before) \o <<last>> \o SubSeq(sorted, before + 1, Len(sorted))

TrendDataUnsorted(trendRaw) ==
    LET entries == TrendMap(trendRaw)
    IN  Reverse([i \in 1..Len(entries) |-> TrendPoint(entries[i])])

\* routes.ts:456-471
TrendData(trendRaw) ==
    LET entries == TrendMap(trendRaw)
    IN  SortByDate([i \in 1..Len(entries) |-> TrendPoint(entries[i])])

StatusLabelsInclusive(health) ==
    [burnoutRisk |->
        IF health.burnoutRisk >= 70 THEN "High"
        ELSE IF health.burnoutRisk >= 40 THEN "Medium" ELSE "Low",
     growthPotential |->
        IF health.performanceScore >= 80 /\ health.engagementScore >= 80 THEN "Emerging"
        ELSE IF health.performanceScore <= 50 THEN "Stalled" ELSE "Steady",
     engagementHealth |->
        IF health.workloadScore >= 80 THEN "Overloaded"
        ELSE IF health.engagementScore <= 40 THEN "Disconnected" ELSE "Balanced"]

\* routes.ts:473-484: the status strings
StatusLabels(health) ==
    [burnoutRisk |->
        IF health.burnoutRisk > 70 THEN "High"
        ELSE IF health.burnoutRisk > 40 THEN "Medium" ELSE "Low",
     growthPotential |->
        IF health.performanceScore > 80 /\ health.engagementScore > 80 THEN "Emerging"
        ELSE IF health.performanceScore < 50 THEN "Stalled" ELSE "Steady",
     engagementHealth |->
        IF health.workloadScore > 80 THEN "Overloaded"
        ELSE IF health.engagementScore < 40 THEN "Disconnected" ELSE "Balanced"]

\* GET /api/team/health (routes.ts:451-493)
GetTeamHealth ==
    LET health == getLatestTeamHealth(healthScores, now)
        labels == StatusLabels(health)
    IN  \E trendRaw \in getTeamHealthTrend(healthScores, 14, now) :
            /\ resp' = Response("team.health", 200,
                    [healthScore |->
                        MathRound(R(health.engagementScore + health.performanceScore, 2)),
                     burnoutRisk |-> labels.burnoutRisk,
                     growthPotential |-> labels.growthPotential,
                     engagementHealth |-> labels.engagementHealth,
                     trendData |-> TrendData(trendRaw)])
            /\ run' = NoRun
            /\ UNCHANGED <<calls, view, alerts, normalizer, employees, nextEmployeeId, weeklyMetrics,
                           nextMetricId, healthScores, nextHealthId, mlPredictions,
                           nextPredictionId, now, ticks>>

\* a stored health score: its date as a day of the model's calendar and an
\* hour of that day
StoredScore(id, employeeId, day, hour, burnout, engagement, performance, workload) ==
    [id |-> id, employeeId |-> employeeId, burnoutRisk |-> burnout,
     engagementScore |-> engagement, performanceScore |-> performance,
     workloadScore |-> workload, date |-> day * DayMs + hour * HourMs]

\* Health scores a table can hold when the clock is at day 20, 00:00: of
\* today, of yesterday (two hours of one day, two employees), exactly 7 days
\* old, an hour older, exactly 14 days old, an hour older. Their scores lie on
\* both sides of the thresholds of the status strings.
ScorePool ==
    {StoredScore(1, 1, 20, 0, 71, 81, 81, 81),
     StoredScore(2, 1, 19, 8, 70, 80, 80, 80),
     StoredScore(3, 2, 19, 0, 41, 40, 50, 10),
     StoredScore(4, 2, 13, 0, 40, 39, 49, 80),
     StoredScore(5, 1, 12, 23, 100, 0, 0, 100),
     StoredScore(6, 2, 6, 0, 0, 100, 100, 0),
     StoredScore(7, 1, 5, 23, 55, 55, 55, 55)}

InitTeam ==
    /\ employees = InitialEmployees
    /\ nextEmployeeId = 3
    /\ weeklyMetrics = {}
    /\ nextMetricId = 1
    /\ healthScores \in {t \in SUBSET ScorePool : Cardinality(t) <= MaxTeamRows}
    /\ nextHealthId = 8
    /\ mlPredictions = {}
    /\ nextPredictionId = 1
    /\ alerts = {}
    /\ normalizer = NotNormalized
    /\ calls = NoCalls
    /\ view = NoView
    /\ now = StartTime
    /\ ticks = 0
    /\ run = NoRun
    /\ resp = NoResp

NextTeam == GetTeamHealth

SpecTeam == InitTeam /\ [][NextTeam]_vars

-----------------------------------------------------------------------------
(* The score derivation on its own: the database holds one weekly metric,   *)
(* drawn from measures that include negative counts, more completed tasks   *)
(* or missed deadlines than assigned ones, saturating workloads and scores  *)
(* on the 0-1 and the 0-100 scale; POST /api/team/health/recompute derives  *)
(* its health score.                                                        *)

TasksAssignedValues == {-2, 0, 2, 20, 24, 60}
TasksCompletedValues == {-1, 0, 1, 18, 30}
MissedDeadlinesValues == {-1, 0, 1, 30}
MeetingHoursValues == {0, 500, 6000}
StretchValues == {0, 1}
EngagementValues == {0, 75, 150, 151, 9000}
CollaborationValues == {0, 80, 100, 4000}

\* the employee and week of the stored metric
MetricOwners == {<<1, 0>>, <<2, 7>>}

MeasuredWeeks ==
    [tasksAssigned : TasksAssignedValues, tasksCompleted : TasksCompletedValues,
     missedDeadlines : MissedDeadlinesValues, meetingHours : MeetingHoursValues,
     collaborationScore : CollaborationValues, engagementScore : EngagementValues,
     learningHours : {200}, stretchAssignments : StretchValues]

InitScore ==
    /\ employees = InitialEmployees
    /\ nextEmployeeId = 3
    /\ \E owner \in MetricOwners, m \in MeasuredWeeks :
          weeklyMetrics =
              Range(createWeeklyMetrics(1,
                  <<WeeklyPayloadItem(owner[1], DateOf(owner[2]), m)>>))
    /\ nextMetricId = 2
    /\ healthScores = {}
    /\ nextHealthId = 1
    /\ mlPredictions = {}
    /\ nextPredictionId = 1
    /\ alerts = {}
    /\ normalizer = NotNormalized
    /\ calls = NoCalls
    /\ view = NoView
    /\ now = StartTime
    /\ ticks = 0
    /\ run = NoRun
    /\ resp = NoResp

NextScore == RecomputeTeamHealth

SpecScore == InitScore /\ [][NextScore]_vars

-----------------------------------------------------------------------------
(* The normaliser of health-score.ts:3-12 on its own: a raw engagement or   *)
(* collaboration score, as the real column or Number() of a CSV cell can    *)
(* hold it, and its normalised value clamp(toPercent(raw)).                 *)

\* health-score.ts:11-12  clamp(toPercent(metric.engagementScore))
Normalize ==
    /\ normalizer' = [raw |-> normalizer.raw, done |-> TRUE,
                      value |-> clamp(toPercent(normalizer.raw))]
    /\ UNCHANGED <<calls, view, employees, nextEmployeeId, weeklyMetrics, nextMetricId,
                   healthScores, nextHealthId, mlPredictions, nextPredictionId,
                   alerts, now, ticks, run, resp>>

\* raw scores: -0.50 to 1.60 by hundredths, 2 to 101 by units, 250, and the
\* three non-finite numbers
RawScores ==
    {Real(v) : v \in -50..160} \cup {RInt(k) : k \in 2..101} \cup {RInt(250)}
        \cup {NaN, PosInfinity, NegInfinity}

InitNormalize ==
    /\ employees = InitialEmployees
    /\ nextEmployeeId = 3
    /\ weeklyMetrics = {}
    /\ nextMetricId = 1
    /\ healthScores = {}
    /\ nextHealthId = 1
    /\ mlPredictions = {}
    /\ nextPredictionId = 1
    /\ alerts = {}
    /\ calls = NoCalls
    /\ view = NoView
    /\ \E raw \in RawScores :
          normalizer = [raw |-> raw, done |-> FALSE, value |-> RInt(0)]
    /\ now = StartTime
    /\ ticks = 0
    /\ run = NoRun
    /\ resp = NoResp

NextNormalize == Normalize

SpecNormalize == InitNormalize /\ [][NextNormalize]_vars

-----------------------------------------------------------------------------
(* The backfill: POST /api/team/health/recompute on a database that holds   *)
(* weekly metrics (two of them of one employee and week) and health scores  *)
(* that are missing, out of date or left behind for an employee and week    *)
(* without metric.                                                          *)

\* weekly metrics stored at start
BackfillMetrics ==
    Range(createWeeklyMetrics(1,
        <<WeeklyPayloadItem(1, DateOf(0), LightWeek), WeeklyPayloadItem(1, DateOf(0), HeavyWeek),
          WeeklyPayloadItem(1, DateOf(7), HeavyWeek), WeeklyPayloadItem(2, DateOf(0), LightWeek)>>))

\* health scores stored at start
BackfillScores ==
    {StoredScore(1, 1, 0, 0, 1, 1, 1, 1), StoredScore(2, 2, 0, 0, 29, 75, 84, 47),
     StoredScore(3, 9, 14, 0, 50, 50, 50, 50)}

InitBackfill ==
    /\ employees = InitialEmployees
    /\ nextEmployeeId = 3
    /\ weeklyMetrics \in SUBSET BackfillMetrics
    /\ nextMetricId = 5
    /\ healthScores \in SUBSET BackfillScores
    /\ nextHealthId = 4
    /\ mlPredictions = {}
    /\ nextPredictionId = 1
    /\ alerts = {}
    /\ normalizer = NotNormalized
    /\ calls = NoCalls
    /\ view = NoView
    /\ now = StartTime
    /\ ticks = 0
    /\ run = NoRun
    /\ resp = NoResp

NextBackfill == RecomputeTeamHealth

SpecBackfill == InitBackfill /\ [][NextBackfill]_vars

-----------------------------------------------------------------------------
(* Two calls of upsertHealthScore for one key, running concurrently: each  *)
(* call is cut at its awaits, the select and then the update or the insert *)

Callers == {1, 2}

\* the scores the two calls carry: one employee, one date, different values
UpsertInputs ==
    {[employeeId |-> 1, burnoutRisk |-> b, engagementScore |-> 100 - b,
      performanceScore |-> 50, workloadScore |-> 50, date |-> 0] : b \in {10, 20, 30}}

\* the health_scores table before the two calls start
UpsertTables ==
    {{},
     {StoredScore(1, 1, 0, 0, 1, 1, 1, 1)},
     {StoredScore(1, 2, 0, 0, 29, 75, 84, 47)},
     {StoredScore(1, 1, 0, 0, 1, 1, 1, 1), StoredScore(2, 2, 0, 0, 29, 75, 84, 47)}}

InitUpsertRace ==
    /\ employees = InitialEmployees
    /\ nextEmployeeId = 3
    /\ weeklyMetrics = {}
    /\ nextMetricId = 1
    /\ healthScores \in UpsertTables
    /\ nextHealthId = 3
    /\ mlPredictions = {}
    /\ nextPredictionId = 1
    /\ alerts = {}
    /\ normalizer = NotNormalized
    /\ calls \in [Callers -> {[pc |-> "select", score |-> s, existing |-> <<>>, order |-> 0] :
                              s \in UpsertInputs}]
    /\ view = NoView
    /\ now = StartTime
    /\ ticks = 0
    /\ run = NoRun
    /\ resp = NoResp

\* storage.ts:84-87  const [existing] = await db.select()...limit(1): the
\* call reads the table as it is now and is suspended with what it found
UpsertSelect(c) ==
    /\ calls[c].pc = "select"
    /\ LET score == calls[c].score
           matching == {h \in healthScores :
                          h.employeeId = score.employeeId /\ h.date = score.date}
       IN  \E existing \in IF matching = {} THEN {<<>>} ELSE {<<h>> : h \in matching} :
             calls' = [calls EXCEPT ![c].pc = "write", ![c].existing = existing]
    /\ UNCHANGED <<view, alerts, normalizer, employees, nextEmployeeId, weeklyMetrics,
                   nextMetricId, healthScores, nextHealthId, mlPredictions,
                   nextPredictionId, now, ticks, run, resp>>

\* storage.ts:89-104  the update of the row found, or the insert when none
\* was found, on the table as it is when the call resumes
UpsertWrite(c) ==
    /\ calls[c].pc = "write"
    /\ LET st == [rows |-> healthScores, nextId |-> nextHealthId]
           after == IF calls[c].existing # <<>>
                      THEN updateHealthScore(st, calls[c].existing[1], calls[c].score)
                      ELSE addHealthScore(st, calls[c].score)
       IN  /\ healthScores' = after.rows
           /\ nextHealthId' = after.nextId
    /\ calls' = [calls EXCEPT ![c].pc = "done",
                              ![c].order = 1 + Cardinality({d \in Callers : calls[d].pc = "done"})]
    /\ UNCHANGED <<view, alerts, normalizer, employees, nextEmployeeId, weeklyMetrics,
                   nextMetricId, mlPredictions, nextPredictionId, now, ticks, run, resp>>

NextUpsertRace == \E c \in Callers : UpsertSelect(c) \/ UpsertWrite(c)

SpecUpsertRace == InitUpsertRace /\ [][NextUpsertRace]_vars

-----------------------------------------------------------------------------
(* Two requests POST /api/ml/predict/:employeeId running concurrently: each *)
(* request is cut at the awaits of runMlBatch, the read of the latest       *)
(* prediction, the call of the service and the insert                       *)

\* the prediction table before the two requests start: empty, or one row of
\* employee 2 that is one TTL old (stale), or ten seconds old (fresh)
RaceTables ==
    {{},
     {[id |-> 1, employeeId |-> 2, burnoutRisk |-> "High",
       createdAt |-> StartTime - cacheTtlMs]},
     {[id |-> 1, employeeId |-> 2, burnoutRisk |-> "High",
       createdAt |-> StartTime - 10000]}}

\* a request that has arrived and has not run yet
Arrived(employeeId) ==
    [pc |-> "start", employeeId |-> employeeId, at |-> 0, gate |-> "none",
     answer |-> "none", predictions |-> <<>>, inserted |-> <<>>, status |-> 0]

InitMlRace ==
    /\ employees = InitialEmployees
    /\ nextEmployeeId = 3
    /\ \E stored \in MetricStores :
          LET created == createWeeklyMetrics(1, stored)
          IN  /\ weeklyMetrics = Range(created)
              /\ nextMetricId = Len(created) + 1
              /\ \E st \in UpsertEach([rows |-> {}, nextId |-> 1], created) :
                    /\ healthScores = st.rows
                    /\ nextHealthId = st.nextId
    /\ mlPredictions \in RaceTables
    /\ nextPredictionId = 2
    /\ alerts = {}
    /\ normalizer = NotNormalized
    /\ calls \in [Callers -> {Arrived(e) : e \in {1, 2}}]
    /\ view = NoView
    /\ now = StartTime
    /\ ticks = 0
    /\ run = NoRun
    /\ resp = NoResp

RaceUnchanged ==
    UNCHANGED <<view, alerts, normalizer, employees, nextEmployeeId, weeklyMetrics,
                nextMetricId, healthScores, nextHealthId, now, ticks, run, resp>>

\* routes.ts:421-431 and 321: the handler finds the employee, builds the
\* payload, answers skipped 1 when the window is short, and otherwise enters
\* runMlBatch, which reads the clock once
RaceStart(c) ==
    /\ calls[c].pc = "start"
    /\ \E payload \in buildPayloadForEmployee(weeklyMetrics, calls[c].employeeId) :
          calls' = [calls EXCEPT ![c] =
                      IF payload = <<>>
                        THEN [@ EXCEPT !.pc = "done", !.status = 200]
                        ELSE [@ EXCEPT !.pc = "gate", !.at = now]]
    /\ UNCHANGED <<mlPredictions, nextPredictionId>>
    /\ RaceUnchanged

\* routes.ts:327-338: the latest prediction as stored when the read runs,
\* judged against the clock read at the start; a fresh one ends the request
RaceGate(c) ==
    /\ calls[c].pc = "gate"
    /\ \E cached \in getLatestMlPrediction(mlPredictions, calls[c].employeeId) :
          calls' = [calls EXCEPT ![c] =
                      IF IsFresh(cached, calls[c].at)
                        THEN [@ EXCEPT !.pc = "done", !.gate = "skipped", !.status = 200]
                        ELSE [@ EXCEPT !.pc = "fetch", !.gate = "passed"]]
    /\ UNCHANGED <<mlPredictions, nextPredictionId>>
    /\ RaceUnchanged

\* routes.ts:341-370: the service answers; a rejected fetch and a non-2xx
\* answer end the request, a 2xx answer is mapped to the rows to insert.
\* One payload was sent: the answers explored hold at most one result, for
\* the employee sent or for another one.
RaceFetch(c) ==
    /\ calls[c].pc = "fetch"
    /\ \E r \in MlResponses(1) :
       \E status \in IF r.kind = "unreachable" THEN UnhandledStatuses
                     ELSE IF ResponseOk(r) THEN {200} ELSE {502} :
          calls' = [calls EXCEPT ![c] =
                      IF ResponseOk(r)
                        THEN [@ EXCEPT !.pc = "insert", !.answer = r.kind,
                                       !.predictions =
                                           [i \in 1..Len(r.results) |-> PredictionOf(r.results[i])]]
                        ELSE [@ EXCEPT !.pc = "done", !.answer = r.kind, !.status = status]]
    /\ UNCHANGED <<mlPredictions, nextPredictionId>>
    /\ RaceUnchanged

\* routes.ts:372-373: the insert, stamped with the time at which it runs
RaceInsert(c) ==
    /\ calls[c].pc = "insert"
    /\ LET saved == createMlPredictions(nextPredictionId, calls[c].predictions, now)
       IN  /\ mlPredictions' = InsertMlPredictions(mlPredictions, saved)
           /\ nextPredictionId' = nextPredictionId + Len(saved)
           /\ calls' = [calls EXCEPT ![c].pc = "done", ![c].inserted = saved,
                                     ![c].status = 200]
    /\ RaceUnchanged

NextMlRace ==
    \/ Tick
    \/ \E c \in Callers : RaceStart(c) \/ RaceGate(c) \/ RaceFetch(c) \/ RaceInsert(c)

SpecMlRace == InitMlRace /\ [][NextMlRace]_vars

-----------------------------------------------------------------------------
(* The employee pages of the client, EmployeeDetail and SelfView: the state *)
(* of the mounted component (the id it shows, autoRequested, the run it has *)
(* pending), the query cache of useMlPrediction, and the requests under way *)
(* to the server. A render with the effects it schedules is one step.       *)

Pages == {"EmployeeDetail", "SelfView"}

\* the ids a page can show; 0 is no id (parseInt(params?.id || "0"),
\* selectedEmployeeId || 0)
PageIds == {0, 1, 2}

\* useMlPrediction, queryFn: 404 is null, another failure throws and leaves
\* the data as it was, 200 is the row
QueryData(prediction, ok, before) ==
    IF ~ok THEN before
    ELSE IF prediction = <<>> THEN "null" ELSE "row"

\* no page mounted yet, nothing in the query cache, nothing under way
InitialView ==
    [mounted |-> FALSE, page |-> "none", contextId |-> 0, id |-> 0, effectId |-> -1,
     autoRequested |-> FALSE, dirty |-> FALSE, selections |-> 0, epoch |-> 0,
     mountEpoch |-> 0,
     data |-> [e \in PageIds \ {0} |-> "undefined"], fetching |-> {},
     runs |-> {}, requests |-> <<>>, clicks |-> 0]

\* the weekly metrics stored: five weeks of employee 2, three of employee 1,
\* who is skipped for want of a full window
ViewStores == {StoredWeeks(2, <<14, 0, 7, 3, 10>>) \o StoredWeeks(1, <<7, 0, 14>>)}

InitView ==
    /\ employees = InitialEmployees
    /\ nextEmployeeId = 3
    /\ \E stored \in ViewStores :
          LET created == createWeeklyMetrics(1, stored)
          IN  /\ weeklyMetrics = Range(created)
              /\ nextMetricId = Len(created) + 1
              /\ \E st \in UpsertEach([rows |-> {}, nextId |-> 1], created) :
                    /\ healthScores = st.rows
                    /\ nextHealthId = st.nextId
    /\ mlPredictions = {}
    /\ nextPredictionId = 1
    /\ alerts = {}
    /\ normalizer = NotNormalized
    /\ calls = NoCalls
    /\ view = InitialView
    /\ now = StartTime
    /\ ticks = 0
    /\ run = NoRun
    /\ resp = NoResp

ServerUnchanged ==
    UNCHANGED <<calls, alerts, normalizer, employees, nextEmployeeId, weeklyMetrics,
                nextMetricId, healthScores, nextHealthId, mlPredictions,
                nextPredictionId, now, ticks, run, resp>>

\* runMl.isPending: the mutation of the mounted component is under way
isPending == \E r \in view.runs : r.mount = view.mountEpoch

\* an effect that asks again whenever the prediction is absent
AutoRequestFiresUnarmed(id, autoRequested, pending, mlPrediction) ==
    /\ id # 0
    /\ ~pending
    /\ mlPrediction = "null"

\* part_004:35-41, Employees.tsx:475-481
\*   if (!id || autoRequested || runMl.isPending) return;
\*   if (mlPrediction === null) { setAutoRequested(true); runMl.mutate(...) }
AutoRequestFires(id, autoRequested, pending, mlPrediction) ==
    /\ id # 0
    /\ ~autoRequested
    /\ ~pending
    /\ mlPrediction = "null"

\* part_004:31-33, Employees.tsx:471-473  useEffect(() => {
\* setAutoRequested(false) }, [id]): the state the effect leaves
ResetEffect(idChanged, autoRequested) == IF idChanged THEN FALSE ELSE autoRequested

\* The page is opened: /employee/:id with any id, or the self view, which
\* shows the id of the context. useState(false).
Mount(page, id) ==
    /\ ~view.mounted
    /\ view.selections < MaxSelections
    /\ page = "SelfView" => id = view.contextId
    /\ view' = [view EXCEPT !.mounted = TRUE, !.page = page, !.id = id, !.effectId = -1,
                            !.autoRequested = FALSE, !.dirty = TRUE,
                            !.selections = @ + 1, !.mountEpoch = view.selections + 1]
    /\ ServerUnchanged

\* the page is left; the query cache and the requests under way remain
Unmount ==
    /\ view.mounted
    /\ view' = [view EXCEPT !.mounted = FALSE, !.dirty = FALSE]
    /\ ServerUnchanged

\* another employee is selected while the page stays mounted: the route
\* parameter changes, or the context's selectedEmployeeId does
SelectEmployee(id) ==
    /\ view.mounted
    /\ id # view.id
    /\ view.selections < MaxSelections
    /\ view' = [view EXCEPT !.id = id, !.dirty = TRUE, !.selections = @ + 1,
                            !.contextId = IF view.page = "SelfView" THEN id ELSE @]
    /\ ServerUnchanged

\* One render and its effects, in the order of their declaration (part_004:
\* 14-41, Employees.tsx:462-481). The render sees the state as it is; the
\* effects run with what the render saw. The reset effect runs when the id
\* differs from the one of the previous run; the auto-request effect depends
\* on runMl, a new object at every render, and runs every time. Updates of
\* one pass are applied in order, so setAutoRequested(true) of the second
\* effect prevails over setAutoRequested(false) of the first. The query of a
\* newly shown id is fetched when it has no data; when it has, the defaults
\* of the QueryClient decide, and both outcomes are kept. epoch counts the
\* selections the component has seen: the mount and every render with an id
\* other than that of the render before.
Render ==
    /\ view.mounted
    /\ view.dirty
    /\ LET id == view.id
           idChanged == view.effectId # id
           mlPrediction == IF id = 0 THEN "undefined" ELSE view.data[id]
           fires == AutoRequestFires(id, view.autoRequested, isPending, mlPrediction)
           epoch == IF idChanged THEN view.epoch + 1 ELSE view.epoch
           after == IF fires THEN TRUE ELSE ResetEffect(idChanged, view.autoRequested)
       IN  \E refetch \in BOOLEAN :
              /\ (id = 0 \/ ~idChanged) => ~refetch
              /\ (id # 0 /\ idChanged /\ mlPrediction = "undefined") => refetch
              /\ view' = [view EXCEPT
                            !.effectId = id,
                            !.epoch = epoch,
                            !.contextId = IF view.page = "EmployeeDetail" /\ id # 0
                                            THEN id ELSE @,
                            !.autoRequested = after,
                            !.dirty = fires \/ after # view.autoRequested,
                            !.fetching = IF refetch THEN @ \cup {id} ELSE @,
                            !.runs = IF fires
                                       THEN @ \cup {[employeeId |-> id, auto |-> TRUE,
                                                     mount |-> view.mountEpoch]}
                                       ELSE @,
                            !.requests = IF fires
                                           THEN Append(@, [employeeId |-> id,
                                                           epoch |-> epoch,
                                                           mount |-> view.mountEpoch])
                                           ELSE @]
    /\ ServerUnchanged

\* part_004:169-170, Employees.tsx:525-526: the button of the page,
\* disabled while a run is pending
ClickRun ==
    /\ view.mounted
    /\ view.id # 0
    /\ view.effectId = view.id
    /\ ~isPending
    /\ view.clicks < MaxClicks
    /\ view' = [view EXCEPT !.dirty = TRUE, !.clicks = @ + 1,
                            !.runs = @ \cup {[employeeId |-> view.id, auto |-> FALSE,
                                              mount |-> view.mountEpoch]}]
    /\ ServerUnchanged

\* GET /api/ml/predictions/:employeeId answers (routes.ts:444-448) and the
\* query of useMlPrediction settles (part_001:163-175)
QueryResolves(e) ==
    /\ e \in view.fetching
    /\ \E prediction \in getLatestMlPrediction(mlPredictions, e), ok \in BOOLEAN :
          view' = [view EXCEPT !.data[e] = QueryData(prediction, ok, @),
                               !.fetching = @ \ {e},
                               !.dirty = view.mounted]
    /\ ServerUnchanged

\* routes.ts:421-437 with runMlBatch (320-374): what POST
\* /api/ml/predict/:employeeId answers and inserts. One payload is sent: the
\* answers of the service explored hold at most one result.
PredictOneOutcomes(employeeId) ==
    IF getEmployee(employees, employeeId) = {}
      THEN {[status |-> 404, inserted |-> <<>>]}
      ELSE UNION {
             IF payload = <<>>
               THEN {[status |-> 200, inserted |-> <<>>]}
               ELSE UNION {
                      IF Len(g.toPredict) = 0
                        THEN {[status |-> 200, inserted |-> <<>>]}
                        ELSE UNION {
                               IF r.kind = "unreachable"
                                 THEN {[status |-> st, inserted |-> <<>>] :
                                       st \in UnhandledStatuses}
                               ELSE IF ~ResponseOk(r)
                                 THEN {[status |-> 502, inserted |-> <<>>]}
                               ELSE {[status |-> 200,
                                      inserted |->
                                          createMlPredictions(
                                              nextPredictionId,
                                              [i \in 1..Len(r.results) |->
                                                  PredictionOf(r.results[i])],
                                              now)]} :
                               r \in MlResponses(1)} :
                      g \in CacheGate(payload, mlPredictions, now)} :
             payload \in buildPayloadForEmployee(weeklyMetrics, employeeId)}

\* The server answers a run and the mutation settles (part_001:177-203):
\* a status that is not ok throws; onSuccess invalidates the query of the
\* employee, which is fetched again if a mounted page shows it.
RunSettles(r) ==
    /\ r \in view.runs
    /\ \E o \in PredictOneOutcomes(r.employeeId) :
          /\ mlPredictions' = InsertMlPredictions(mlPredictions, o.inserted)
          /\ nextPredictionId' = nextPredictionId + Len(o.inserted)
          /\ view' = [view EXCEPT
                        !.runs = @ \ {r},
                        !.dirty = view.mounted,
                        !.fetching = IF /\ o.status = 200
                                        /\ view.mounted
                                        /\ view.effectId = r.employeeId
                                        /\ view.id = r.employeeId
                                       THEN @ \cup {r.employeeId} ELSE @]
    /\ UNCHANGED <<calls, alerts, normalizer, employees, nextEmployeeId, weeklyMetrics,
                   nextMetricId, healthScores, nextHealthId, now, ticks, run, resp>>

NextView ==
    \/ \E page \in Pages, id \in PageIds : Mount(page, id)
    \/ Unmount
    \/ \E id \in PageIds : SelectEmployee(id)
    \/ Render
    \/ ClickRun
    \/ \E e \in PageIds : QueryResolves(e)
    \/ \E r \in [employeeId : PageIds \ {0}, auto : BOOLEAN, mount : 1..MaxSelections] :
          RunSettles(r)

SpecView == InitView /\ [][NextView]_vars

-----------------------------------------------------------------------------
(* What the claims speak of *)

IsMlRun == run.op # "none"

SingleEmployeeOps == {"ml.predict?employeeId", "ml.predictOne"}

\* the stored weekly metrics of an employee
MetricsOf(employeeId) == {m \in weeklyMetrics : m.employeeId = employeeId}

\* the predictions of an employee stored when the last orchestration began
StoredBefore(employeeId) == {p \in run.before : p.employeeId = employeeId}

\* a latest stored prediction exists and is younger than the TTL
HadFreshPrediction(employeeId) ==
    \E p \in StoredBefore(employeeId) :
        /\ \A q \in StoredBefore(employeeId) : q.createdAt <= p.createdAt
        /\ run.at - p.createdAt < cacheTtlMs

PayloadEmployees(payloads) == {payloads[i].employee_id : i \in 1..Len(payloads)}

\* the employees named in the requests sent to the service
SentEmployees == UNION {PayloadEmployees(run.fetches[k]) : k \in 1..Len(run.fetches)}

ReusedEmployees == {run.recentlyCached[k].employeeId : k \in 1..Len(run.recentlyCached)}

InsertedEmployees == {run.inserted[k].employeeId : k \in 1..Len(run.inserted)}

\* C1: in every orchestration run, a payload's employee is reused (in
\* recentlyCached, in no request to the service) exactly when its latest stored
\* prediction is younger than the TTL, and is queued in toPredict otherwise
\* (no prediction, or age >= TTL); when every payload is reused no request is
\* sent and no prediction row is inserted.
C1_CacheGateDecision ==
    IsMlRun =>
        /\ \A e \in PayloadEmployees(run.batchPayload) :
              IF HadFreshPrediction(e)
                THEN e \in ReusedEmployees /\ e \notin PayloadEmployees(run.toPredict)
                     /\ e \notin SentEmployees
                ELSE e \in PayloadEmployees(run.toPredict) /\ e \notin ReusedEmployees
        /\ (/\ run.batchPayload # <<>>
            /\ \A e \in PayloadEmployees(run.batchPayload) : HadFreshPrediction(e))
              => run.fetches = <<>> /\ mlPredictions = run.before

\* a run that reuses one employee and queues another whose prediction is
\* exactly one TTL old
C1_Witness ==
    /\ IsMlRun
    /\ ReusedEmployees # {}
    /\ \E e \in PayloadEmployees(run.toPredict) :
          \E p \in StoredBefore(e) : run.at - p.createdAt = cacheTtlMs

\* C2 (as claimed): a run for an existing employee with at least 4 weekly
\* metrics and a fresh prediction answers 200 with processed 0, skipped 1,
\* predictionsSaved 0 in both single-employee shapes, and counts the employee
\* in skipped in the all-employees shape.
C2_FreshEmployeeReportedSkipped ==
    IsMlRun =>
        \A e \in run.targets :
            (Cardinality(MetricsOf(e)) >= WindowSize /\ HadFreshPrediction(e)) =>
                IF run.op \in SingleEmployeeOps
                  THEN resp.status = 200 /\ resp.body = Counts(0, 1, 0)
                  ELSE resp.status = 200 =>
                          resp.body.skipped =
                              Cardinality(run.insufficient) + Len(run.recentlyCached)

ResultsWithinRequest ==
    \A i \in 1..Len(run.results) : run.results[i].employee_id \in SentEmployees

WeekOf(row) ==
    [week_start |-> row.weekStart, tasks_assigned |-> row.tasksAssigned,
     tasks_completed |-> row.tasksCompleted, missed_deadlines |-> row.missedDeadlines,
     meeting_hours |-> row.meetingHours, collaboration_score |-> row.collaborationScore,
     engagement_score |-> row.engagementScore, learning_hours |-> row.learningHours,
     stretch_assignments |-> row.stretchAssignments]

\* C4: every payload built holds exactly 4 weeks; they are 4 rows of the
\* employee such that no other row of the employee has a greater weekStart,
\* and they are sent oldest first.
C4_WindowComposition ==
    IsMlRun =>
        \A i \in 1..Len(run.batchPayload) :
            LET payload == run.batchPayload[i]
                rows == MetricsOf(payload.employee_id)
            IN  /\ Len(payload.weeks) = 4
                /\ \A k \in 1..(Len(payload.weeks) - 1) :
                      payload.weeks[k].week_start <= payload.weeks[k + 1].week_start
                /\ \E chosen \in SUBSET rows :
                      /\ Cardinality(chosen) = 4
                      /\ \A r \in rows \ chosen : \A c \in chosen : r.weekStart <= c.weekStart
                      /\ \E order \in AnyOrder(chosen) :
                            \A k \in 1..4 : payload.weeks[k] = WeekOf(order[k])

\* a payload for an employee with more than 4 rows, whose rows were not
\* inserted in the order of their weeks
C4_Witness ==
    /\ IsMlRun
    /\ \E i \in 1..Len(run.batchPayload) :
          LET rows == MetricsOf(run.batchPayload[i].employee_id)
          IN  /\ Cardinality(rows) > 4
              /\ \E a, b \in rows : a.id < b.id /\ a.weekStart > b.weekStart

\* C5: when the service answers with a non-2xx status the request ends with
\* 502, the prediction table is what it was before the request and one
\* request only was sent; no run sends more than one request, and rows are
\* inserted only by a run the service answered with success.
C5_AllOrNothing ==
    IsMlRun =>
        /\ run.answer = "non2xx" =>
              /\ resp.status = 502
              /\ mlPredictions = run.before
              /\ Len(run.fetches) = 1
        /\ Len(run.fetches) <= 1
        /\ mlPredictions # run.before => run.answer = "ok"
        /\ run.before \subseteq mlPredictions

\* a failed call whose error body carries a result, on a table that already
\* holds a prediction
C5_Witness ==
    /\ IsMlRun
    /\ run.answer = "non2xx"
    /\ run.results # <<>>
    /\ run.before # {}

\* C6 (as claimed): when the service cannot be reached the request ends with
\* 502, as for a non-2xx answer, and no prediction row is persisted.
C6_UnreachableIs502 ==
    (IsMlRun /\ run.answer = "unreachable") =>
        /\ resp.status = 502
        /\ mlPredictions = run.before

SameKey(m1, m2) == m1.employeeId = m2.employeeId /\ m1.weekStart = m2.weekStart

Scores(h) ==
    <<h.burnoutRisk, h.engagementScore, h.performanceScore, h.workloadScore>>

\* the scores a metric can be given
ScoresOf(m) == {Scores(score) : score \in computeHealthScoreFromMetric(m)}

\* at most one health score per (employeeId, date)
HealthKeyUnique ==
    \A h1, h2 \in healthScores :
        (h1.employeeId = h2.employeeId /\ h1.date = h2.date) => h1.id = h2.id

\* every row of health_scores is still there after the step, under its id
\* and its key
HealthRowsKept ==
    \A h \in healthScores :
        \E g \in healthScores' :
            g.id = h.id /\ g.employeeId = h.employeeId /\ g.date = h.date

\* C7: across any sequence of POST /metrics/weekly, import-csv and recompute
\* requests run one after the other from a store with at most one health
\* score per (employeeId, date), there is still at most one per key, and no
\* request removes a row or gives a key another row id (an upsert on an
\* existing key changes the row in place).
C7_HealthScoreKeyUnique == []HealthKeyUnique /\ [][HealthRowsKept]_vars

\* two weekly metrics of one (employeeId, weekStart) were processed, by
\* different requests
C7_Witness ==
    /\ resp.op # "metrics.weekly.create"
    /\ \E m1, m2 \in weeklyMetrics :
          /\ m1.id # m2.id
          /\ m1.employeeId = m2.employeeId /\ m1.weekStart = m2.weekStart
          /\ ScoresOf(m1) # ScoresOf(m2)
          /\ \E h \in healthScores : h.employeeId = m1.employeeId /\ h.date = m1.weekStart

\* C8: after POST /metrics/weekly has processed its created metrics in order,
\* the key of each metric has exactly one health score, and its four scores
\* are those computed from the metric of that key processed last.
C8_UpsertReflectsLatest ==
    resp.op = "metrics.weekly.create" =>
        \A i \in 1..Len(resp.body) :
            (\A j \in (i + 1)..Len(resp.body) : ~SameKey(resp.body[i], resp.body[j])) =>
                LET m == resp.body[i]
                    stored == {h \in healthScores :
                                 h.employeeId = m.employeeId /\ h.date = m.weekStart}
                IN  /\ Cardinality(stored) = 1
                    /\ \A h \in stored : Scores(h) \in ScoresOf(m)

\* one request processed two metrics of one key that give different scores
C8_Witness ==
    /\ resp.op = "metrics.weekly.create"
    /\ Len(resp.body) = 2
    /\ SameKey(resp.body[1], resp.body[2])
    /\ ScoresOf(resp.body[1]) \cap ScoresOf(resp.body[2]) = {}

\* C9: no step of the server changes or removes a stored prediction row
C9_PredictionsAppendOnly == [][\A p \in mlPredictions : p \in mlPredictions']_vars

\* a run inserted a prediction for an employee that already had one
C9_Witness ==
    /\ IsMlRun
    /\ \E k \in 1..Len(run.inserted) : StoredBefore(run.inserted[k].employeeId) # {}

PredictionsOf(employeeId) == {p \in mlPredictions : p.employeeId = employeeId}

\* a row of GET /ml/predictions without the employee name joined to it
StoredRowOf(b) ==
    [id |-> b.id, employeeId |-> b.employeeId, burnoutRisk |-> b.burnoutRisk,
     createdAt |-> b.createdAt]

\* GET /ml/predictions lists one stored row per employee that has predictions,
\* one of greatest createdAt; GET /ml/predictions/:employeeId is 404 exactly
\* when the employee has none, and else a row of greatest createdAt
LatestListedAndFound ==
    /\ resp.op = "ml.predictions.list" =>
          /\ \A p \in mlPredictions :
                Cardinality({i \in 1..Len(resp.body) :
                                resp.body[i].employeeId = p.employeeId}) = 1
          /\ \A i \in 1..Len(resp.body) :
                /\ StoredRowOf(resp.body[i]) \in mlPredictions
                /\ \A q \in PredictionsOf(resp.body[i].employeeId) :
                      q.createdAt <= resp.body[i].createdAt
    /\ resp.op = "ml.predictions.get" =>
          /\ resp.status = 404 <=> PredictionsOf(resp.body.employeeId) = {}
          /\ resp.status # 404 =>
                /\ resp.status = 200
                /\ resp.body \in mlPredictions
                /\ \A q \in PredictionsOf(resp.body.employeeId) :
                      q.createdAt <= resp.body.createdAt

\* C10 (as claimed): ... and the row listed for an employee is the row
\* getLatestMlPrediction returns for that employee.
C10_LatestAgreeAsClaimed ==
    /\ LatestListedAndFound
    /\ resp.op = "ml.predictions.list" =>
          \A i \in 1..Len(resp.body) :
              \A found \in getLatestMlPrediction(mlPredictions, resp.body[i].employeeId) :
                  found = <<StoredRowOf(resp.body[i])>>

\* C10 (amended): ... and the row listed for an employee has the createdAt of
\* the row getLatestMlPrediction returns for that employee; it is that row
\* when one row only of the employee has the greatest createdAt (rows of one
\* insert share their createdAt, and either query may return any of them).
C10_LatestPerEmployee ==
    /\ LatestListedAndFound
    /\ resp.op = "ml.predictions.list" =>
          \A i \in 1..Len(resp.body) :
              LET mine == PredictionsOf(resp.body[i].employeeId)
                  newest == {p \in mine : \A q \in mine : q.createdAt <= p.createdAt}
              IN  \A found \in getLatestMlPrediction(mlPredictions, resp.body[i].employeeId) :
                      /\ found # <<>>
                      /\ found[1].createdAt = resp.body[i].createdAt
                      /\ Cardinality(newest) = 1 => found[1] = StoredRowOf(resp.body[i])

\* the list of latest predictions when an employee has an older and a newer row
C10_Witness ==
    /\ resp.op = "ml.predictions.list"
    /\ \E p, q \in mlPredictions : p.employeeId = q.employeeId /\ p.createdAt < q.createdAt

\* a resolved alert is resolved, with its action taken, after the step
AlertStaysResolved ==
    \A a \in alerts :
        a.status = "resolved" =>
            \E b \in alerts' : b.id = a.id /\ b.status = "resolved" /\ b.actionTaken = TRUE

\* resolving a stored alert answers 200 with the alert as stored after the
\* step: resolved, with its action taken
ResolveSetsResolved ==
    \A id \in RequestAlertIds :
        (ResolveAlert(id) /\ \E a \in alerts : a.id = id) =>
            /\ resp'.status = 200
            /\ resp'.body.id = id
            /\ resp'.body.status = "resolved" /\ resp'.body.actionTaken = TRUE
            /\ resp'.body \in alerts'

\* every stored resolved alert has its action taken, and the list of active
\* alerts holds no resolved alert
ResolvedNotActive ==
    /\ \A a \in alerts : a.status = "resolved" => a.actionTaken = TRUE
    /\ resp.op = "alerts.list" =>
          \A i \in 1..Len(resp.body) :
              /\ resp.body[i].status = "active"
              /\ \A a \in alerts : a.id = resp.body[i].id => a.status # "resolved"

\* C11: resolving a stored alert sets status "resolved" and actionTaken true;
\* a resolved alert stays resolved with actionTaken true under every later
\* step, and is never in the list of active alerts.
C11_AlertResolutionOneWay ==
    []ResolvedNotActive /\ [][AlertStaysResolved /\ ResolveSetsResolved]_vars

\* the active alerts are listed after one of several stored alerts was
\* resolved, and an active one is listed
C11_Witness ==
    /\ resp.op = "alerts.list"
    /\ Len(resp.body) > 0
    /\ \E a \in alerts : a.status = "resolved" /\ a.employeeId \in {1, 2}

IsTeamHealth == resp.op = "team.health"

\* the health scores dated at or after the clock minus the days
ScoresWithinDays(days) == {h \in healthScores : h.date >= now - days * DayMs}

\* C12 (as claimed): with no health score dated within the trailing 7 days,
\* GET /team/health answers healthScore 0 with the labels Low, Steady and
\* Balanced.
C12_EmptySnapshotDefaults ==
    (IsTeamHealth /\ ScoresWithinDays(7) = {}) =>
        /\ resp.body.healthScore = 0
        /\ resp.body.burnoutRisk = "Low"
        /\ resp.body.growthPotential = "Steady"
        /\ resp.body.engagementHealth = "Balanced"

\* C13: the burnout label is High above 70, Medium above 40 up to 70, else
\* Low; the growth label is Emerging when performance and engagement are both
\* above 80, otherwise Stalled when performance is below 50, else Steady; the
\* engagement label is Overloaded when workload is above 80, otherwise
\* Disconnected when engagement is below 40, else Balanced; each is one label.
C13_StatusLabels ==
    IsTeamHealth =>
        LET health == getLatestTeamHealth(healthScores, now)
            body == resp.body
        IN  /\ \A f \in DOMAIN health : health[f] \in 0..100
            /\ body.burnoutRisk \in {"High", "Medium", "Low"}
            /\ body.burnoutRisk = "High" <=> health.burnoutRisk > 70
            /\ body.burnoutRisk = "Medium" <=>
                  (40 < health.burnoutRisk /\ health.burnoutRisk <= 70)
            /\ body.growthPotential \in {"Emerging", "Stalled", "Steady"}
            /\ body.growthPotential = "Emerging" <=>
                  (health.performanceScore > 80 /\ health.engagementScore > 80)
            /\ body.growthPotential = "Stalled" <=>
                  /\ ~(health.performanceScore > 80 /\ health.engagementScore > 80)
                  /\ health.performanceScore < 50
            /\ body.engagementHealth \in {"Overloaded", "Disconnected", "Balanced"}
            /\ body.engagementHealth = "Overloaded" <=> health.workloadScore > 80
            /\ body.engagementHealth = "Disconnected" <=>
                  (health.workloadScore <= 80 /\ health.engagementScore < 40)

\* a snapshot whose aggregate lies just under the upper thresholds
C13_Witness ==
    /\ IsTeamHealth
    /\ getLatestTeamHealth(healthScores, now) =
          [burnoutRisk |-> 70, engagementScore |-> 80, performanceScore |-> 80,
           workloadScore |-> 80]
    /\ resp.body.burnoutRisk = "Medium"

\* m is total / count rounded to the nearest integer, halves up
IsRoundedMean(m, total, count) ==
    2 * count * m - count <= 2 * total /\ 2 * total < 2 * count * m + count

ScoreFields == {"burnoutRisk", "engagementScore", "performanceScore", "workloadScore"}

\* C14: each field of the snapshot's aggregate is the rounded mean of the
\* field over all health scores dated at or after the clock minus 7 days,
\* whichever employee they belong to, and healthScore is the rounded mean of
\* the aggregate's engagementScore and performanceScore.
C14_PooledTeamAverage ==
    IsTeamHealth =>
        LET health == getLatestTeamHealth(healthScores, now)
            pooled == ScoresWithinDays(7)
        IN  /\ pooled # {} =>
                  \A f \in ScoreFields :
                      IsRoundedMean(health[f], SumField(pooled, f), Cardinality(pooled))
            /\ IsRoundedMean(resp.body.healthScore,
                             health.engagementScore + health.performanceScore, 2)

\* a snapshot over two scores of one employee and one of the other, with an
\* older score stored, and a mean that is not an integer
C14_Witness ==
    /\ IsTeamHealth
    /\ Cardinality({h \in ScoresWithinDays(7) : h.employeeId = 1}) = 2
    /\ Cardinality({h \in ScoresWithinDays(7) : h.employeeId = 2}) = 1
    /\ healthScores # ScoresWithinDays(7)
    /\ SumField(ScoresWithinDays(7), "burnoutRisk") % 3 # 0

\* the days of the calendar on which the scores of the trailing 14 days lie
TrendDays == {h.date \div DayMs : h \in ScoresWithinDays(14)}

\* C15: trendData has one point for each calendar date of the health scores
\* dated within the trailing 14 days and no other point, in ascending order
\* of date, each with the rounded means of burnoutRisk and performanceScore
\* over the scores of its date.
C15_TrendSeries ==
    IsTeamHealth =>
        LET trend == resp.body.trendData
        IN  /\ Len(trend) = Cardinality(TrendDays)
            /\ \A i \in 1..Len(trend) :
                  \E day \in TrendDays :
                      LET rows == {h \in ScoresWithinDays(14) : h.date \div DayMs = day}
                      IN  /\ trend[i].date = IsoDate(day * DayMs)
                          /\ Cardinality({d \in TrendDays : d < day}) = i - 1
                          /\ IsRoundedMean(trend[i].burnout,
                                           SumField(rows, "burnoutRisk"), Cardinality(rows))
                          /\ IsRoundedMean(trend[i].performance,
                                           SumField(rows, "performanceScore"),
                                           Cardinality(rows))

\* a trend of three dates or more, one of them with two scores, while a
\* score older than 14 days is stored
C15_Witness ==
    /\ IsTeamHealth
    /\ Len(resp.body.trendData) >= 3
    /\ Cardinality(ScoresWithinDays(14)) > Len(resp.body.trendData)
    /\ healthScores # ScoresWithinDays(14)

-----------------------------------------------------------------------------
(* The score derivation *)

\* the stored weekly metric a health score was derived from
MetricOf(h) ==
    CHOOSE m \in weeklyMetrics : m.employeeId = h.employeeId /\ m.weekStart = h.date

HasMetric(h) ==
    \E m \in weeklyMetrics : m.employeeId = h.employeeId /\ m.weekStart = h.date

\* C16: every health score derived from a weekly metric (counts negative or
\* beyond tasksAssigned included, scores on the 0-1 or the 0-100 scale) has
\* burnoutRisk, engagementScore, performanceScore and workloadScore that are
\* integers from 0 to 100.
C16_ScoresBounded ==
    \A h \in healthScores : \A f \in ScoreFields : h[f] \in 0..100

\* a score derived from a metric with more completed than assigned tasks,
\* whose performance saturates at 100
C16_Witness ==
    \E h \in healthScores :
        /\ HasMetric(h)
        /\ MetricOf(h).tasksCompleted > MetricOf(h).tasksAssigned
        /\ MetricOf(h).tasksAssigned > 0
        /\ h.performanceScore = 100

\* The reference computation of the specification, on exact numbers.
Bounded(a) == IF RLess(a, RInt(0)) THEN RInt(0) ELSE IF RLess(RInt(100), a) THEN RInt(100) ELSE a

ReferencePercent(hundredths) ==
    Bounded(IF hundredths <= 150 THEN RInt(hundredths) ELSE R(hundredths, 100))

Reference(m) ==
    LET assigned == IF m.tasksAssigned < 0 THEN 0 ELSE m.tasksAssigned
        completed == IF m.tasksCompleted < 0 THEN 0 ELSE m.tasksCompleted
        missed == IF m.missedDeadlines < 0 THEN 0 ELSE m.missedDeadlines
        ratio == IF assigned = 0 THEN RInt(0) ELSE R(completed, assigned)
        missRate == IF assigned = 0 THEN RInt(0) ELSE R(missed, assigned)
        engagement == ReferencePercent(m.engagementScore)
        collaboration == ReferencePercent(m.collaborationScore)
        \* tasksAssigned/40*70 + meetingHours/10*20 + stretchAssignments/5*10
        workload ==
            Bounded(R(7 * assigned * 100 + 4 * 2 * m.meetingHours
                        + 4 * 2 * m.stretchAssignments * 100, 400))
        \* ratio*60 + engagement*0.2 + collaboration*0.2 - missRate*20
        performance ==
            Bounded(RSub(RAdd(RMul(ratio, RInt(60)),
                              RMul(RAdd(engagement, collaboration), R(1, 5))),
                         RMul(missRate, RInt(20))))
        \* workload*0.45 + missRate*25 + (100-engagement)*0.2 + (100-collaboration)*0.1
        burnout ==
            Bounded(RAdd(RAdd(RMul(workload, R(9, 20)), RMul(missRate, RInt(25))),
                         RAdd(RMul(RSub(RInt(100), engagement), R(1, 5)),
                              RMul(RSub(RInt(100), collaboration), R(1, 10)))))
    IN  [burnoutRisk |-> burnout, engagementScore |-> engagement,
         performanceScore |-> performance, workloadScore |-> workload]

\* v is an integer nearest to a: a - 1/2 <= v <= a + 1/2
IsNearest(v, a) == Abs(2 * (v * a.d - a.n)) <= a.d

\* the metric of the specification's example
IsExampleMetric(m) ==
    /\ m.tasksAssigned = 20 /\ m.tasksCompleted = 18 /\ m.missedDeadlines = 1
    /\ m.meetingHours = 500 /\ m.collaborationScore = 80
    /\ m.engagementScore = 75 /\ m.stretchAssignments = 1

ExampleScores(h) ==
    /\ h.workloadScore = 47 /\ h.performanceScore = 84
    /\ h.burnoutRisk = 29 /\ h.engagementScore = 75

-----------------------------------------------------------------------------
(* The normaliser *)

IsFinite(a) == a.d # 0

\* C18: a finite raw score s is normalised to clamp(s * 100) when s <= 1.5
\* and to clamp(s) when s > 1.5, the clamp bounding to [0, 100]; so s in
\* [0, 1] gives s * 100, s in (1, 1.5] gives 100, s in (1.5, 100] gives s and
\* a negative s gives 0.
C18_NormalizationRule ==
    (normalizer.done /\ IsFinite(normalizer.raw)) =>
        LET s == normalizer.raw
            v == normalizer.value
        IN  /\ RLeq(s, R(3, 2)) => v = Bounded(RMul(s, RInt(100)))
            /\ RLess(R(3, 2), s) => v = Bounded(s)
            /\ (RLeq(RInt(0), s) /\ RLeq(s, RInt(1))) => v = RMul(s, RInt(100))
            /\ (RLess(RInt(1), s) /\ RLeq(s, R(3, 2))) => v = RInt(100)
            /\ (RLess(R(3, 2), s) /\ RLeq(s, RInt(100))) => v = s
            /\ RLess(s, RInt(0)) => v = RInt(0)

\* a raw score above 1 and at most 1.5 was normalised to 100
C18_Witness ==
    /\ normalizer.done
    /\ RLess(RInt(1), normalizer.raw) /\ RLeq(normalizer.raw, R(3, 2))
    /\ normalizer.value = RInt(100)

\* C19 (as claimed): a raw score that is NaN, Infinity or -Infinity is
\* normalised to 0.
C19_NonFiniteIsZero ==
    (normalizer.done /\ ~IsFinite(normalizer.raw)) => normalizer.value = RInt(0)

-----------------------------------------------------------------------------
(* The CSV import *)

\* the employee key matches the employee by id, by name or by email
KeyMatches(key, e) ==
    \/ ToString(e.id) = key
    \/ toLowerCase(e.name) = toLowerCase(key)
    \/ toLowerCase(e.email) =
          toLowerCase(IF includes(key, "@") THEN key ELSE key \o "@pulseai.local")

\* the employee keys of the file that match no stored employee
UnknownKeys(rows) ==
    {key \in {rows[i].employeeKey : i \in 1..Len(rows)} :
        \A e \in employees : ~KeyMatches(key, e)}

\* C20: an import with createMissingEmployees false of a file of which some
\* employee key matches no stored employee by id, name or email is answered
\* 400 with a message naming such a key, and leaves the employees, the weekly
\* metrics and the health scores as they were.
C20_UnknownEmployeeRejected ==
    [][\A rows \in CsvFiles :
          (UnknownKeys(rows) # {} /\ ImportWeeklyCsv(rows, 0, FALSE)) =>
              /\ resp'.status = 400
              /\ \E key \in UnknownKeys(rows) :
                    resp'.body.message = "Unknown employee: " \o key
              /\ employees' = employees
              /\ weeklyMetrics' = weeklyMetrics
              /\ healthScores' = healthScores]_vars

\* an import was refused for the key "Zed" while metrics and health scores
\* of earlier requests are stored
C20_Witness ==
    /\ resp.op = "metrics.weekly.importCsv"
    /\ resp.status = 400
    /\ resp.body.message = "Unknown employee: Zed"
    /\ weeklyMetrics # {}
    /\ healthScores # {}

-----------------------------------------------------------------------------
(* Ingestion and backfill *)

MetricKeyUnique ==
    \A m1, m2 \in weeklyMetrics : SameKey(m1, m2) => m1 = m2

MetricRowsKept == \A m \in weeklyMetrics : m \in weeklyMetrics'

\* no step changes or removes a stored weekly metric
MetricsImmutable == [][MetricRowsKept]_vars

\* C21 (as claimed): at most one weekly metric is stored per (employeeId,
\* weekStart), and no step changes or removes a stored weekly metric.
C21_MetricUniqueImmutable == []MetricKeyUnique /\ [][MetricRowsKept]_vars

\* the health scores stored under the key of a metric
StoredFor(m) == {h \in healthScores : h.employeeId = m.employeeId /\ h.date = m.weekStart}

PairwiseDistinctKeys(created) ==
    \A i, j \in 1..Len(created) : SameKey(created[i], created[j]) => i = j

\* C22: when POST /metrics/weekly has answered 201, every weekly metric it
\* created has a health score with its employeeId and date = weekStart; when
\* the created metrics have pairwise distinct keys, the scores of that row
\* are those computeHealthScoreFromMetric gives for the created metric.
C22_IngestionTriggersScoring ==
    (resp.op = "metrics.weekly.create" /\ resp.status = 201) =>
        /\ \A i \in 1..Len(resp.body) :
              /\ resp.body[i] \in weeklyMetrics
              /\ StoredFor(resp.body[i]) # {}
        /\ PairwiseDistinctKeys(resp.body) =>
              \A i \in 1..Len(resp.body) :
                  \A h \in StoredFor(resp.body[i]) : Scores(h) \in ScoresOf(resp.body[i])

\* a request created two metrics of distinct keys while a health score of an
\* earlier request with other scores was stored under one of the keys
C22_Witness ==
    /\ resp.op = "metrics.weekly.create" /\ resp.status = 201
    /\ Len(resp.body) = 2
    /\ PairwiseDistinctKeys(resp.body)
    /\ \E m \in weeklyMetrics :
          /\ m.id < resp.body[1].id
          /\ SameKey(m, resp.body[1])
          /\ ScoresOf(m) \cap ScoresOf(resp.body[1]) = {}

\* C24: when POST /team/health/recompute has answered, every stored weekly
\* metric has a health score under its key, each health score under the key
\* of a stored metric carries the scores computed from a stored metric of
\* that key, and `updated` is the number of stored weekly metrics.
C24_FullBackfill ==
    resp.op = "team.recompute" =>
        /\ \A m \in weeklyMetrics :
              /\ StoredFor(m) # {}
              /\ \A h \in StoredFor(m) :
                    \E m2 \in weeklyMetrics : SameKey(m, m2) /\ Scores(h) \in ScoresOf(m2)
        /\ resp.body.updated = Cardinality(weeklyMetrics)

\* a backfill over metrics of three keys left a score under each of them and
\* kept a health score of a key without metric
C24_Witness ==
    /\ resp.op = "team.recompute"
    /\ resp.body.updated = 4
    /\ \E h \in healthScores : \A m \in weeklyMetrics : h \notin StoredFor(m)
    /\ \A h \in healthScores : h.burnoutRisk # 1

\* C29 (as claimed): a recompute that follows a recompute, with no other
\* request between them, leaves the health scores as they were and answers
\* with the same count.
C29_RecomputeIdempotent ==
    [][(resp.op = "team.recompute" /\ resp'.op = "team.recompute") =>
          healthScores' = healthScores /\ resp'.body = resp.body]_vars

\* what a second recompute does keep: the rows' ids and keys, their number
\* and the count answered
RecomputeKeepsRows ==
    [][(resp.op = "team.recompute" /\ resp'.op = "team.recompute") =>
          /\ {<<h.id, h.employeeId, h.date>> : h \in healthScores'}
                = {<<h.id, h.employeeId, h.date>> : h \in healthScores}
          /\ resp'.body = resp.body]_vars

\* the employee keys of a file, and the distinct employee ids under which an
\* import stored its rows
KeysOf(rows) == {rows[i].employeeKey : i \in 1..Len(rows)}

\* C30 (as claimed): an import with createMissingEmployees true stores the
\* rows of n distinct employee keys under n distinct employee ids.
C30_MappingInjective ==
    [][\A rows \in CsvFiles :
          (ImportWeeklyCsv(rows, 0, TRUE) /\ resp'.status = 200) =>
              Cardinality({m.employeeId : m \in weeklyMetrics' \ weeklyMetrics})
                  = Cardinality(KeysOf(rows))]_vars

-----------------------------------------------------------------------------
(* Orchestration: what a run inserts *)

ResultEmployees(results) == {results[i].employee_id : i \in 1..Len(results)}

\* the service answered 2xx with exactly one result for each employee sent
OneResultPerRequested(r) ==
    /\ r.answer = "ok"
    /\ Len(r.results) = Len(r.toPredict)
    /\ ResultEmployees(r.results) = PayloadEmployees(r.toPredict)
    /\ Cardinality(PayloadEmployees(r.toPredict)) = Len(r.toPredict)

\* the employees of the last run that passed the window check and the gate
Queued ==
    {e \in run.targets : e \notin run.insufficient /\ ~HadFreshPrediction(e)}

InsertedFor(e) == {k \in 1..Len(run.inserted) : run.inserted[k].employeeId = e}

\* C23: in a run whose call to the service succeeds with one result per
\* employee sent, the employees that passed the window check and the cache
\* gate are sent in one request, each of them gets exactly one new stored
\* prediction, no other employee gets one, and the response has processed =
\* predictionsSaved = the number of queued employees.
C23_OnePredictionPerQueued ==
    (IsMlRun /\ OneResultPerRequested(run)) =>
        /\ Len(run.fetches) = 1
        /\ PayloadEmployees(run.fetches[1]) = Queued
        /\ Len(run.fetches[1]) = Cardinality(Queued)
        /\ \A e \in Queued : Cardinality(InsertedFor(e)) = 1
        /\ \A k \in 1..Len(run.inserted) :
              /\ run.inserted[k].employeeId \in Queued
              /\ run.inserted[k] \in mlPredictions
              /\ run.inserted[k] \notin run.before
        /\ resp.status = 200
        /\ resp.body.processed = Cardinality(Queued)
        /\ resp.body.predictionsSaved = Cardinality(Queued)

\* a run over all employees queued two of them and inserted two predictions
C23_Witness ==
    /\ IsMlRun /\ OneResultPerRequested(run)
    /\ run.op = "ml.predict"
    /\ Cardinality(Queued) = 2
    /\ Len(run.inserted) = 2

\* a run over all employees queued one employee and skipped the other
SkippedBesideQueued ==
    /\ IsMlRun /\ OneResultPerRequested(run)
    /\ run.op = "ml.predict"
    /\ Cardinality(Queued) = 1
    /\ run.targets # Queued

\* any two stored predictions of one employee are at least one TTL apart
TtlSpaced(table) ==
    \A p, q \in table :
        (p.employeeId = q.employeeId /\ p.id # q.id) =>
            Abs(p.createdAt - q.createdAt) >= cacheTtlMs

\* the service answered with at most one result per employee sent, and for
\* no other employee (a run that made no call included)
AtMostOnePerRequested(r) ==
    /\ ResultEmployees(r.results) \subseteq PayloadEmployees(r.toPredict)
    /\ Cardinality(ResultEmployees(r.results)) = Len(r.results)

\* C27: with requests executed one after the other on one clock, as long as
\* the service answers each run with at most one result per employee sent and
\* none for another employee, no employee has two stored predictions whose
\* createdAt differ by less than the TTL.
C27_SequentialRunsRespectTtl ==
    [][(TtlSpaced(mlPredictions) /\ (run'.op # "none" => AtMostOnePerRequested(run')))
          => TtlSpaced(mlPredictions')]_vars

\* an employee has two stored predictions exactly one TTL apart
C27_Witness ==
    /\ TtlSpaced(mlPredictions)
    /\ \E p, q \in mlPredictions :
          /\ p.employeeId = q.employeeId
          /\ q.createdAt - p.createdAt = cacheTtlMs

-----------------------------------------------------------------------------
(* Concurrent calls of upsertHealthScore *)

BothUpsertsDone == \A c \in Callers : calls[c].pc = "done"

\* the call whose update or insert executed last
LastWriter == CHOOSE c \in Callers : calls[c].order = Cardinality(Callers)

RowsOfKey(score) ==
    {h \in healthScores : h.employeeId = score.employeeId /\ h.date = score.date}

HoldsValuesOf(h, score) ==
    /\ h.burnoutRisk = score.burnoutRisk
    /\ h.engagementScore = score.engagementScore
    /\ h.performanceScore = score.performanceScore
    /\ h.workloadScore = score.workloadScore

\* C25: when two upsertHealthScore calls for the same (employeeId, date)
\* interleave at their awaits, then once both have written there is exactly
\* one health score row for that key and it holds the values of the call
\* whose write executed last.
C25_LastWriteWins ==
    BothUpsertsDone =>
        LET rows == RowsOfKey(calls[LastWriter].score)
        IN  /\ Cardinality(rows) = 1
            /\ \A h \in rows : HoldsValuesOf(h, calls[LastWriter].score)

\* the part that holds: both calls found the row of the key, so both updated it
C25_LastWriteWinsOnExistingRow ==
    (BothUpsertsDone /\ \A c \in Callers : calls[c].existing # <<>>) =>
        LET rows == RowsOfKey(calls[LastWriter].score)
        IN  /\ Cardinality(rows) = 1
            /\ \A h \in rows : HoldsValuesOf(h, calls[LastWriter].score)

\* both calls selected before either wrote, and both inserted
C25_BothInserted ==
    /\ BothUpsertsDone
    /\ \A c \in Callers : calls[c].existing = <<>>
    /\ Cardinality(RowsOfKey(calls[LastWriter].score)) = 2

-----------------------------------------------------------------------------
(* Concurrent orchestration requests *)

\* request c called the service for its employee and inserted a row for it
PassedAndInserted(c, e) ==
    /\ calls[c].employeeId = e
    /\ calls[c].gate = "passed"
    /\ calls[c].answer = "ok"
    /\ \E i \in 1..Len(calls[c].inserted) : calls[c].inserted[i].employeeId = e

\* both requests passed the gate for employee e, both called the service and
\* each inserted a row of e, the two rows less than one TTL apart
GateRaced(e) ==
    /\ \A c \in Callers : PassedAndInserted(c, e)
    /\ \E i \in 1..Len(calls[1].inserted), j \in 1..Len(calls[2].inserted) :
          LET p == calls[1].inserted[i]
              q == calls[2].inserted[j]
          IN  /\ p.employeeId = e /\ q.employeeId = e
              /\ p \in mlPredictions /\ q \in mlPredictions
              /\ p.id # q.id
              /\ p.createdAt - q.createdAt < cacheTtlMs
              /\ q.createdAt - p.createdAt < cacheTtlMs

\* C26: in every state in which two concurrent requests for one employee
\* both passed the cache gate, both called the service and left two rows of
\* that employee less than one TTL apart, getLatestMlPrediction for the
\* employee returns a single stored row of the employee, and no row of the
\* employee has a greater createdAt.
C26_LatestMasksDuplicates ==
    \A e \in {1, 2} :
        GateRaced(e) =>
            \A found \in getLatestMlPrediction(mlPredictions, e) :
                /\ Len(found) = 1
                /\ found[1] \in mlPredictions
                /\ found[1].employeeId = e
                /\ \A p \in mlPredictions :
                      p.employeeId = e => p.createdAt <= found[1].createdAt

\* the interleaving exists: both requests of employee 2 raced through the
\* gate, and the two rows they left differ in createdAt
C26_Witness ==
    /\ GateRaced(2)
    /\ \E p, q \in mlPredictions :
          p.employeeId = 2 /\ q.employeeId = 2 /\ p.createdAt < q.createdAt

\* the same on an absent cache: the table held no row before the requests
C26_RacedOnAbsentCache ==
    /\ GateRaced(2)
    /\ \A p \in mlPredictions :
          \E c \in Callers : \E i \in 1..Len(calls[c].inserted) : calls[c].inserted[i] = p

-----------------------------------------------------------------------------
(* The auto-request of the employee pages *)

\* the auto-requests made while the given selection was shown
AutoRequestsOf(epoch) ==
    {i \in 1..Len(view.requests) : view.requests[i].epoch = epoch}

\* at most one auto-request per selection of an id in a mounted page
OncePerSelection ==
    \A i, j \in 1..Len(view.requests) :
        view.requests[i].epoch = view.requests[j].epoch => i = j

\* once the page has rendered the selected id and is at rest, autoRequested
\* is set exactly if the auto-request of this selection has been made: a
\* newly selected id finds it cleared
ArmedUnlessRequested ==
    (view.mounted /\ ~view.dirty /\ view.effectId = view.id) =>
        (view.autoRequested <=> AutoRequestsOf(view.epoch) # {})

\* a step that makes an auto-request makes one, for the id the mounted page
\* shows, whose query had resolved to null, while no run was pending
RequestedOnlyWhenNone ==
    Len(view'.requests) # Len(view.requests) =>
        /\ view.mounted
        /\ view.id # 0
        /\ view'.requests =
              Append(view.requests, [employeeId |-> view.id, epoch |-> view'.epoch,
                                     mount |-> view.mountEpoch])
        /\ view.data[view.id] = "null"
        /\ ~isPending

\* C28: in EmployeeDetail and SelfView a prediction run is auto-requested
\* only when the prediction query of the currently selected employee has
\* resolved to null and no run is pending; for one selected id it is
\* requested at most once while that id stays selected in the mounted page,
\* also when the prediction is still absent after the run; and a change of
\* the selected id clears autoRequested, so that the new id can be requested.
C28_AutoRequestOncePerSelection ==
    /\ [](OncePerSelection /\ ArmedUnlessRequested)
    /\ [][RequestedOnlyWhenNone]_vars

\* the run requested for the selected employee, who has no full window, has
\* been answered (skipped), nothing is stored for the employee, the query
\* has resolved to null again, and the page is at rest with its one
\* auto-request
C28_Witness ==
    /\ view.mounted /\ ~view.dirty /\ view.id # 0 /\ view.effectId = view.id
    /\ Cardinality(AutoRequestsOf(view.epoch)) = 1
    /\ view.runs = {} /\ view.fetching = {}
    /\ view.data[view.id] = "null"
    /\ getLatestMlPrediction(mlPredictions, view.id) = {<<>>}
    /\ buildPayloadForEmployee(weeklyMetrics, view.id) = {<<>>}
    /\ view.clicks = 0

\* after a change of the selected id the new id has been auto-requested too
C28_Rearmed ==
    /\ view.mounted
    /\ Len(view.requests) = 2
    /\ view.requests[1].mount = view.requests[2].mount
    /\ view.requests[1].employeeId # view.requests[2].employeeId

====
